---- MODULE Spec2Model ----
(***************************************************************************)
(* Nyxstone: the assemble / disassemble pipelines of src/src/nyxstone.cpp  *)
(* with the two LLVM wrappers (ELFStreamerWrapper, ObjectWriterWrapper).   *)
(*                                                                         *)
(* The LLVM Backend (parser, encoder, layout, decoder, printer) is outside *)
(* the repository.  It is modelled by a small instruction set with the     *)
(* behaviour the wrappers rely on: fixed instructions go to the current    *)
(* data fragment, a branch to a label gets a relaxable fragment of its own,*)
(* a data directive appends raw bytes to the current data fragment, layout *)
(* relaxes branches to a fixed point and applies fixups, an unresolved     *)
(* fixup is handed to recordRelocation.  An instruction with a literal or  *)
(* page operand (vldr, adrp) and a .long directive leave a fixup in the    *)
(* data fragment; an alignment directive starts a new fragment.            *)
(*                                                                         *)
(* uint64_t arithmetic is modelled on AddrBits-bit words (TLC integers are *)
(* 32 bit wide); every address computation is taken modulo AddrMod.        *)
(***************************************************************************)
EXTENDS Integers, Sequences, FiniteSets, TLC

VARIABLES triple, call, cx, threads, builders, build_common_mutex, cli

vars == <<triple, call, cx, threads, builders, build_common_mutex, cli>>

----------------------------------------------------------------------------
(* Bounds of the model *)

\* longest assembly text, in statements
MaxStmts == 3
\* longest disassembler input, in bytes
MaxBytes == 4
\* largest instruction count passed to disassemble
MaxCount == 2

----------------------------------------------------------------------------
(* Words and bytes *)

AddrBits == 16
AddrMod == 2 ^ AddrBits

\* uint64_t wrap-around
U64(x) == x % AddrMod

\* static_cast<int64_t>
ToSigned(x) == IF U64(x) >= AddrMod \div 2 THEN U64(x) - AddrMod ELSE U64(x)

\* little-endian two's complement bytes of d, n bytes
LEBytes(d, n) == [k \in 1..n |-> (d \div (256 ^ (k - 1))) % 256]

Bit(x, k) == (x \div (2 ^ k)) % 2

RECURSIVE SumLen(_)
\* std::accumulate over insn.bytes.size()
SumLen(insns) ==
    IF insns = <<>> THEN 0
    ELSE Len(Head(insns).bytes) + SumLen(Tail(insns))

RECURSIVE Concat(_)
Concat(ss) == IF ss = <<>> THEN <<>> ELSE Head(ss) \o Concat(Tail(ss))

Prefix(s, n) == SubSeq(s, 1, n)
Drop(s, n) == SubSeq(s, n + 1, Len(s))

----------------------------------------------------------------------------
(* Session configuration and call arguments *)

\* x86_64: 1/2/5 byte instructions.  thumbv7m: ARM Thumb, 2/4 byte instructions.
\* aarch64 and armv6t2 (ARM state): 4 byte instructions.
Triples == {"x86_64", "thumbv7m", "aarch64", "armv6t2"}

\* the test looks at the sub-architecture only (v6m, v6t2, v7m, v7em, v8m...)
is_ArmT16_or_ArmT32(t) == t \in {"thumbv7m", "armv6t2"}

\* the instruction set the Backend assembles for: Thumb only for a thumb triple
IsThumb(t) == t = "thumbv7m"

\* One statement of assembly text.  " " stands for whitespace or a comment,
\* "???" for a statement the parser rejects, ".byte 1" for a data directive,
\* ".long l" for a data directive holding the address of l, "vldr l" for a
\* literal load, "adrp l" / "adrp e" for a page address, ".p2align 2" for an
\* alignment directive.  "adr e" (Thumb2 ADR.W) and "vldr e" refer to an external
\* label; they are statements of the label specification only.
StmtsOf(t) ==
    CASE t = "x86_64" -> {"nop", "jmp l", "jmp e", "l:", ".byte 1", "???", " ", ".long l"}
      [] t = "thumbv7m" -> {"nop", "jmp l", "jmp e", "l:", ".byte 1", "???", " ", "vldr l"}
      [] t = "aarch64" -> {"nop", "adrp l", "adrp e", "l:", ".p2align 2", " ", ".long l"}
      [] OTHER -> {"nop", "???", " "}

Stmts == UNION {StmtsOf(t) : t \in Triples}

LabelNames == {"l", "e"}

RECURSIVE SeqsUpTo(_, _)
SeqsUpTo(S, n) ==
    IF n = 0 THEN {<<>>}
    ELSE LET shorter == SeqsUpTo(S, n - 1)
         IN shorter \cup {Append(s, x) : s \in {t \in shorter : Len(t) = n - 1}, x \in S}

AssembliesOf(t) == SeqsUpTo(StmtsOf(t), MaxStmts)

Assemblies == UNION {AssembliesOf(t) : t \in Triples}

\* start addresses: 4-byte aligned, and 2 mod 4 just below the wrap-around;
\* for aarch64 the last word of a page and the first of the next
AddressesOf(t) == IF t = "aarch64" THEN {4092, 4096} ELSE {4096, AddrMod - 2}

Addresses == UNION {AddressesOf(t) : t \in Triples}

\* external label definitions handed to one call
LabelSets == {<<>>, <<[name |-> "e", address |-> 256]>>}

PREPENDED_ASSEMBLY == "bkpt #0x42"
PREPENDED_BYTES == <<66, 190>>

NoCall == [op |-> "none", assembly |-> <<>>, address |-> 0, labels |-> <<>>,
           bytes |-> <<>>, count |-> 0]

----------------------------------------------------------------------------
(* Backend: instruction encodings *)

IsBranch(stmt) == stmt \in {"jmp l", "jmp e"}
BranchTarget(stmt) == IF stmt = "jmp l" THEN "l" ELSE "e"
IsLabelDef(stmt) == stmt = "l:"
IsFixedInsn(t, stmt) ==
    \/ stmt = "nop"
    \/ stmt = PREPENDED_ASSEMBLY /\ t \in {"thumbv7m", "armv6t2"}

\* an instruction emitted into the data fragment together with a fixup
IsFixupInsn(t, stmt) ==
    \/ stmt \in {"adrp l", "adrp e"} /\ t = "aarch64"
    \/ stmt \in {"vldr l", "vldr e", "adr e"} /\ IsThumb(t)

\* a branch is an instruction of x86_64 and Thumb here
IsInstruction(t, stmt) ==
    \/ IsFixedInsn(t, stmt)
    \/ IsFixupInsn(t, stmt)
    \/ IsBranch(stmt) /\ t \in {"x86_64", "thumbv7m"}

\* the symbol a statement refers to
FixupSymbol(stmt) == IF stmt \in {"jmp e", "adrp e", "vldr e", "adr e"} THEN "e" ELSE "l"

FixupKind(stmt) ==
    CASE stmt \in {"adrp l", "adrp e"} -> "fixup_aarch64_pcrel_adrp_imm21"
      [] stmt \in {"vldr l", "vldr e"} -> "fixup_t2_pcrel_10"
      [] stmt = "adr e" -> "fixup_t2_adr_pcrel_12"
      [] OTHER -> "FK_Data_4"

\* encoding of an instruction without operands: bkpt #0x42 is be42 in Thumb and
\* e1200472 in ARM state; nop is bf00, e320f000, d503201f, 90
FixedBytes(t, stmt) ==
    IF stmt = PREPENDED_ASSEMBLY
    THEN IF IsThumb(t) THEN <<66, 190>> ELSE <<114, 4, 32, 225>>
    ELSE CASE IsThumb(t) -> <<0, 191>>
           [] t = "armv6t2" -> <<0, 240, 32, 227>>
           [] t = "aarch64" -> <<31, 32, 3, 213>>
           [] OTHER -> <<144>>

\* adrp x0, <imm21 pages>: immlo in bits 29..30, immhi in bits 5..23 of 90000000
AdrpBytes(value) ==
    LET imm == (ToSigned(value) \div 4096) % 2097152
        immlo == imm % 4
        immhi == imm \div 4
    IN <<(immhi % 8) * 32, (immhi \div 8) % 256, (immhi \div 2048) % 256, 144 + immlo * 32>>

\* vldr d0, [pc, #value]: ed9f0b00 with U and imm8 = |value| / 4
VldrBytes(value) ==
    LET mag == IF value >= 0 THEN value ELSE -value
    IN <<IF value >= 0 THEN 159 ELSE 31, 237, (mag \div 4) % 256, 11>>

\* adr.w r0, <value>: f20f0000 (add) or f2af0000 (sub) with i:imm3:imm8 = |value|;
\* the encoding keeps the low twelve bits of the magnitude
AdrBytes(value) ==
    LET mag == IF value >= 0 THEN value ELSE -value
        hw1 == (IF value >= 0 THEN 61967 ELSE 62127) + Bit(mag, 11) * 1024
        hw2 == ((mag \div 256) % 8) * 4096 + (mag % 256)
    IN <<hw1 % 256, hw1 \div 256, hw2 % 256, hw2 \div 256>>

\* the bytes the encoder emits before the fixup is applied
FixupInsnBytes(stmt) ==
    CASE stmt \in {"vldr l", "vldr e"} -> VldrBytes(0)
      [] stmt = "adr e" -> AdrBytes(0)
      [] OTHER -> AdrpBytes(0)

\* short branch: x86 EB rel8, Thumb tB (0xE000 | imm11)
EncShort(t, d) ==
    IF IsThumb(t)
    THEN <<(d \div 2) % 256, 224 + ((d \div 512) % 8)>>
    ELSE <<235, d % 256>>

\* long branch: x86 E9 rel32, Thumb2 B.W (S:J1:J2:imm10:imm11)
EncLong(t, d) ==
    IF IsThumb(t)
    THEN LET imm == d \div 2
             S == Bit(imm, 23)
             J1 == 1 - ((Bit(imm, 22) + S) % 2)
             J2 == 1 - ((Bit(imm, 21) + S) % 2)
             hw1 == 61440 + S * 1024 + ((imm \div 2048) % 1024)
             hw2 == 36864 + J1 * 8192 + J2 * 2048 + (imm % 2048)
         IN <<hw1 % 256, hw1 \div 256, hw2 % 256, hw2 \div 256>>
    ELSE <<233>> \o LEBytes(d, 4)

\* the displacement a short branch can hold
FitsShort(t, d) ==
    IF IsThumb(t) THEN d >= -2048 /\ d <= 2046
    ELSE d >= -128 /\ d <= 127

\* MCInstPrinter::printInst, left-trimmed, tabs to spaces
PrintInst(stmt) == stmt

----------------------------------------------------------------------------
(* The transient context of one call *)

\* owners is not program state: it remembers, byte by byte, the statement of the
\* input that emitted the byte (0 for a data directive); a relaxable fragment
\* holds the one statement that owns all of it
DataFragment(contents) ==
    [kind |-> "Data", contents |-> contents, fixups |-> <<>>, inst |-> "", relaxed |-> FALSE,
     owners |-> <<>>]

AlignFragment ==
    [kind |-> "Align", contents |-> <<>>, fixups |-> <<>>, inst |-> "", relaxed |-> FALSE,
     owners |-> <<>>]

\* an MCRelaxableFragment holds one branch in its short form, displacement not yet known
RelaxableFragment(t, stmt, src) ==
    [kind |-> "Relaxable", contents |-> EncShort(t, 0), owners |-> <<src>>,
     fixups |-> <<[offset |-> IF IsThumb(t) THEN 0 ELSE 1,
                   sym |-> BranchTarget(stmt),
                   kind |-> IF IsThumb(t) THEN "fixup_arm_thumb_br" ELSE "FK_PCRel_1"]>>,
     inst |-> stmt, relaxed |-> FALSE]

UndefinedSymbol == [defined |-> FALSE, frag |-> 0, offset |-> 0]

NoResult == [kind |-> "none", value |-> <<>>, error |-> <<>>]
Ok(v) == [kind |-> "ok", value |-> v, error |-> <<>>]
Unexpected(e) == [kind |-> "err", value |-> <<>>, error |-> e]
\* an exception leaves the public operation instead of a tl::expected
Thrown(e) == [kind |-> "exception", value |-> <<>>, error |-> <<e>>]

Cx0 ==
    [pc |-> "idle",
     want_instructions |-> FALSE,
     needs_prepend |-> FALSE,
     input_assembly |-> <<>>,
     cursor |-> 1,
     HadError |-> FALSE,
     ctxHadError |-> FALSE,
     extended_error |-> <<>>,
     symbols |-> [n \in LabelNames |-> UndefinedSymbol],
     fragments |-> <<>>,
     instructions |-> <<>>,
     output_bytes |-> <<>>,
     bytes |-> <<>>,
     thrown |-> FALSE,
     pos |-> 0,
     insn_count |-> 0,
     disassembly |-> "",
     \* not program state: whether the call before this one on the session failed
     prior |-> "clean",
     \* not program state: the fragment loop of writeObject left a data fragment
     \* whose remaining bytes are fewer than the next recorded instruction needs
     shortfall |-> FALSE,
     \* what assemble_impl / disassemble_impl returns, and what the public wrapper returns
     res |-> NoResult,
     result |-> NoResult]

\* variant: the handler keeps only the latest diagnostic
DiagnosticHandlerLatest(x, msg) == [x EXCEPT !.extended_error = <<msg>>]

\* the diagnostic handler installed on the MCContext
DiagnosticHandler(x, msg) == [x EXCEPT !.extended_error = @ \o <<msg>>]

\* AsmParser::printError: the parser's own error flag, then the handler
printError(x, msg) == DiagnosticHandler([x EXCEPT !.HadError = TRUE], msg)

\* MCContext::reportError: the context's error flag, then the handler
reportError(x, msg) == DiagnosticHandler([x EXCEPT !.ctxHadError = TRUE], msg)

----------------------------------------------------------------------------
(* assemble_impl, up to the parser run *)

prepend_bkpt(assembly, needs_prepend) ==
    IF needs_prepend THEN <<PREPENDED_ASSEMBLY>> \o assembly ELSE assembly

RECURSIVE InjectLabelsFirstWins(_, _, _, _)
\* variant: a name that is already bound keeps its first address
InjectLabelsFirstWins(symbols, labels, address, compensate_prepended_bkpt) ==
    IF labels = <<>> THEN symbols
    ELSE LET label == Head(labels)
             inj == [defined |-> TRUE, frag |-> 1,
                     offset |-> U64(label.address - address + compensate_prepended_bkpt)]
         IN InjectLabelsFirstWins(
                IF symbols[label.name].defined THEN symbols
                ELSE [symbols EXCEPT ![label.name] = inj],
                Tail(labels), address, compensate_prepended_bkpt)

RECURSIVE InjectLabelsUncompensated(_, _, _, _)
\* variant: the sentinel's two bytes are not added to the offset
InjectLabelsUncompensated(symbols, labels, address, compensate_prepended_bkpt) ==
    IF labels = <<>> THEN symbols
    ELSE InjectLabelsUncompensated(
             [symbols EXCEPT ![Head(labels).name] =
                 [defined |-> TRUE, frag |-> 1, offset |-> U64(Head(labels).address - address)]],
             Tail(labels), address, compensate_prepended_bkpt)

RECURSIVE InjectLabels(_, _, _, _)
\* inj_symbol->setOffset(label.address - address + compensate); setFragment(first data fragment)
InjectLabels(symbols, labels, address, compensate_prepended_bkpt) ==
    IF labels = <<>> THEN symbols
    ELSE LET label == Head(labels)
             inj == [defined |-> TRUE, frag |-> 1,
                     offset |-> U64(label.address - address + compensate_prepended_bkpt)]
         IN InjectLabels([symbols EXCEPT ![label.name] = inj], Tail(labels),
                         address, compensate_prepended_bkpt)

\* variant: the sentinel only for addresses that are 2 modulo 8
NeedsPrependMod8(t, address) == is_ArmT16_or_ArmT32(t) /\ address % 8 = 2

\* const bool needs_prepend { is_ArmT16_or_ArmT32(triple) && address % 4 == 2 }
NeedsPrepend(t, address) == is_ArmT16_or_ArmT32(t) /\ address % 4 = 2

\* the state of assemble_impl when parser->Run is entered
AssembleSetup(t, c) ==
    LET needs_prepend == NeedsPrepend(t, c.address)
    IN [Cx0 EXCEPT
          !.pc = IF prepend_bkpt(c.assembly, needs_prepend) = <<>> THEN "finish" ELSE "parse",
          !.want_instructions = (c.op = "assemble_to_instructions"),
          !.needs_prepend = needs_prepend,
          !.input_assembly = prepend_bkpt(c.assembly, needs_prepend),
          !.fragments = <<DataFragment(<<>>), AlignFragment>>,
          !.symbols = InjectLabels(Cx0.symbols, c.labels, c.address,
                                   IF needs_prepend THEN Len(PREPENDED_BYTES) ELSE 0)]

----------------------------------------------------------------------------
(* MCELFStreamer: emission into fragments *)

LastIsData(frags) == frags # <<>> /\ frags[Len(frags)].kind = "Data"

\* MCObjectStreamer::getOrCreateDataFragment
WithDataFragment(frags) ==
    IF LastIsData(frags) THEN frags ELSE Append(frags, DataFragment(<<>>))

\* MCObjectStreamer::emitBytes / emitInstToData
AppendToData(frags, bytes, src) ==
    LET fs == WithDataFragment(frags)
    IN [fs EXCEPT ![Len(fs)].contents = @ \o bytes,
                  ![Len(fs)].owners = @ \o [k \in 1..Len(bytes) |-> src]]

\* bytes appended to the current data fragment with a fixup at their start
AppendWithFixup(frags, bytes, src, sym, kind) ==
    LET fs == WithDataFragment(frags)
        fixup == [offset |-> Len(fs[Len(fs)].contents), sym |-> sym, kind |-> kind]
    IN [AppendToData(fs, bytes, src) EXCEPT ![Len(fs)].fixups = Append(@, fixup)]

\* MCELFStreamer::emitInstruction
StreamerEmit(t, frags, stmt, src) ==
    IF IsBranch(stmt) THEN Append(frags, RelaxableFragment(t, stmt, src))
    ELSE IF IsFixupInsn(t, stmt)
    THEN AppendWithFixup(frags, FixupInsnBytes(stmt), src, FixupSymbol(stmt), FixupKind(stmt))
    ELSE AppendToData(frags, FixedBytes(t, stmt), src)

\* MCStreamer::emitLabel: the symbol is bound to the end of the current data fragment
emitLabel(x, name) ==
    IF x.symbols[name].defined
    THEN reportError(x, "symbol is already defined")
    ELSE LET fs == WithDataFragment(x.fragments)
         IN [x EXCEPT !.fragments = fs,
                      !.symbols[name] = [defined |-> TRUE, frag |-> Len(fs),
                                         offset |-> Len(fs[Len(fs)].contents)]]

----------------------------------------------------------------------------
(* ELFStreamerWrapper::emitInstruction *)

RECURSIVE FirstNewFragment(_, _, _, _)
\* the fragment loop: the first data or relaxable fragment at which the running
\* fragment length exceeds the recorded instruction length; 0 if there is none
FirstNewFragment(frags, i, frag_byte_length, insn_byte_length) ==
    IF i > Len(frags) THEN [idx |-> 0, frag_byte_length |-> frag_byte_length]
    ELSE IF frags[i].kind \notin {"Data", "Relaxable"}
         THEN FirstNewFragment(frags, i + 1, frag_byte_length, insn_byte_length)
         ELSE LET n == frag_byte_length + Len(frags[i].contents)
              IN IF n > insn_byte_length
                 THEN [idx |-> i, frag_byte_length |-> n]
                 ELSE FirstNewFragment(frags, i + 1, n, insn_byte_length)

RecordInstruction(x, stmt) ==
    LET insn_byte_length == SumLen(x.instructions)
        hit == FirstNewFragment(x.fragments, 1, 0, insn_byte_length)
    IN IF hit.idx = 0 THEN x
       ELSE LET contents == x.fragments[hit.idx].contents
                insn_length == hit.frag_byte_length - insn_byte_length
            IN IF insn_length > Len(contents)
               THEN DiagnosticHandler(x, "Internal error (= insn_length)")
               ELSE LET new_insn == [address |-> 0, assembly |-> PrintInst(stmt),
                                     bytes |-> Drop(contents, Len(contents) - insn_length)]
                    IN [x EXCEPT !.instructions = Append(@, new_insn)]

emitInstruction(t, x, stmt) ==
    LET y == [x EXCEPT !.fragments = StreamerEmit(t, x.fragments, stmt, x.cursor)]
    IN IF ~x.want_instructions THEN y ELSE RecordInstruction(y, stmt)

----------------------------------------------------------------------------
(* AsmParser::Run: one statement *)

parseStatement(t, x, stmt) ==
    IF stmt = " " THEN x
    ELSE IF IsLabelDef(stmt) THEN emitLabel(x, "l")
    ELSE IF stmt = ".byte 1" THEN [x EXCEPT !.fragments = AppendToData(@, <<1>>, 0)]
    ELSE IF stmt = ".long l"
    THEN [x EXCEPT !.fragments = AppendWithFixup(@, <<0, 0, 0, 0>>, 0, "l", "FK_Data_4")]
    \* every alignment directive inserts an alignment fragment; the statements of
    \* aarch64 are all multiples of four bytes long, so it holds no padding
    ELSE IF stmt = ".p2align 2" THEN [x EXCEPT !.fragments = Append(@, AlignFragment)]
    ELSE IF IsInstruction(t, stmt) THEN emitInstruction(t, x, stmt)
    ELSE printError(x, "invalid instruction")

ParseNext(t, x) ==
    LET y == parseStatement(t, x, x.input_assembly[x.cursor])
    IN [y EXCEPT !.cursor = @ + 1,
                 !.pc = IF x.cursor = Len(x.input_assembly) THEN "finish" ELSE "parse"]


----------------------------------------------------------------------------
(* MCAssembler::layout: fragment offsets, relaxation, fixups *)

RECURSIVE FragmentOffset(_, _)
\* MCAsmLayout::getFragmentOffset
FragmentOffset(frags, i) ==
    IF i <= 1 THEN 0
    ELSE FragmentOffset(frags, i - 1) + Len(frags[i - 1].contents)

\* the symbol's offset in the section, as the uint64_t sum the code computes
SymbolOffset(frags, symbol) == U64(FragmentOffset(frags, symbol.frag) + symbol.offset)

\* distance from the fixup's field to the address a pc-relative value counts from
PcAdjust(kind) ==
    CASE kind = "FK_PCRel_1" -> 1
      [] kind = "reloc_branch_4byte_pcrel" -> 4
      [] OTHER -> 4

\* FKF_IsAlignedDownTo32Bits: the pc of a Thumb literal load or ADR is Align(PC, 4)
AlignedPc(kind, offset) ==
    IF kind \in {"fixup_t2_pcrel_10", "fixup_t2_adr_pcrel_12"}
    THEN offset - (offset % 4) ELSE offset

\* MCAssembler::evaluateFixup for a resolved pc-relative fixup
FixupValue(frags, symbols, i, fixup) ==
    ToSigned(SymbolOffset(frags, symbols[fixup.sym])
             - AlignedPc(fixup.kind, FragmentOffset(frags, i) + fixup.offset)
             - PcAdjust(fixup.kind))

\* MCAssembler::evaluateFixup: a pc-relative reference to a defined symbol of the
\* section is resolved; an absolute reference and an ADRP page reference (the
\* AArch64 backend forces its relocation) are left to the object writer
IsResolved(symbols, fixup) ==
    /\ symbols[fixup.sym].defined
    /\ fixup.kind \notin {"FK_Data_4", "fixup_aarch64_pcrel_adrp_imm21"}

\* contents with the bytes at offset replaced
Patch(contents, offset, bytes) ==
    SubSeq(contents, 1, offset) \o bytes
    \o SubSeq(contents, offset + Len(bytes) + 1, Len(contents))

\* MCAsmBackend::fixupNeedsRelaxationAdvanced
NeedsRelaxation(t, frags, symbols, i) ==
    /\ frags[i].kind = "Relaxable"
    /\ ~frags[i].relaxed
    /\ LET fixup == frags[i].fixups[1]
       IN \/ ~symbols[fixup.sym].defined
          \/ ~FitsShort(t, FixupValue(frags, symbols, i, fixup))

\* MCAssembler::relaxInstruction: the long form, its fixup not yet applied
Relaxed(t, frag) ==
    [frag EXCEPT
       !.contents = EncLong(t, 0),
       !.relaxed = TRUE,
       !.fixups = <<[offset |-> frag.fixups[1].offset,
                     sym |-> frag.fixups[1].sym,
                     kind |-> IF IsThumb(t) THEN "fixup_t2_uncondbranch"
                              ELSE "reloc_branch_4byte_pcrel"]>>]

\* MCAssembler::layoutSectionOnce: every fragment is tested against the old layout
LayoutOnce(t, frags, symbols) ==
    [i \in 1..Len(frags) |->
        IF NeedsRelaxation(t, frags, symbols, i) THEN Relaxed(t, frags[i]) ELSE frags[i]]

RECURSIVE Relax(_, _, _)
Relax(t, frags, symbols) ==
    LET next == LayoutOnce(t, frags, symbols)
    IN IF next = frags THEN frags ELSE Relax(t, next, symbols)

\* ARMAsmBackend::adjustFixupValue: the Backend's own range test; a literal load
\* holds imm8 words, a Thumb2 ADR is encoded without a test
adjustFixupValue(x, fixup, value) ==
    IF fixup.kind = "fixup_t2_pcrel_10" /\ (value >= 1024 \/ value <= -1024)
    THEN reportError(x, "out of range pc-relative fixup value")
    ELSE x

\* MCAsmBackend::applyFixup: the fragment's contents with the value patched in
ApplyFixup(t, frag, fixup, value) ==
    CASE frag.kind = "Relaxable" ->
             IF frag.relaxed THEN EncLong(t, value) ELSE EncShort(t, value)
      [] fixup.kind = "fixup_t2_pcrel_10" -> Patch(frag.contents, fixup.offset, VldrBytes(value))
      [] fixup.kind = "fixup_t2_adr_pcrel_12" -> Patch(frag.contents, fixup.offset, AdrBytes(value))
      [] fixup.kind = "fixup_aarch64_pcrel_adrp_imm21" ->
             Patch(frag.contents, fixup.offset, AdrpBytes(value))
      [] OTHER -> Patch(frag.contents, fixup.offset, LEBytes(U64(value), 4))

----------------------------------------------------------------------------
(* ObjectWriterWrapper: relocations *)

isAArch64(t) == t = "aarch64"

PAGE_SIZE == 4096

PageOf(a) == a - (a % PAGE_SIZE)

\* variant: every relocation with defined symbols counts as resolved
resolve_relocationAnyKind(t, start_address, frags, symbols, i, fixup, fixed_value) ==
    [resolved |-> symbols[fixup.sym].defined, fixed_value |-> fixed_value]

\* [resolved, fixed_value]; only the AArch64 ADRP page relocation is implemented
resolve_relocation(t, start_address, frags, symbols, i, fixup, fixed_value) ==
    IF isAArch64(t) /\ fixup.kind = "fixup_aarch64_pcrel_adrp_imm21"
    THEN IF ~symbols[fixup.sym].defined
         THEN [resolved |-> FALSE, fixed_value |-> fixed_value]
         ELSE LET local_addr == U64(start_address + fixup.offset)
                  target_addr == U64(start_address + symbols[fixup.sym].offset)
              IN [resolved |-> TRUE,
                  fixed_value |-> U64(PageOf(target_addr) - PageOf(local_addr))]
    ELSE [resolved |-> FALSE, fixed_value |-> fixed_value]

\* variant: the relocation is recorded for a linker, nothing is reported
recordRelocationSilent(t, start_address, x, i, fixup) == x

recordRelocation(t, start_address, x, i, fixup) ==
    LET labels_defined == x.symbols[fixup.sym].defined
    IN IF ~labels_defined
       THEN reportError(x, "Label undefined (reported by Nyxstone)")
       ELSE IF ~resolve_relocation(t, start_address, x.fragments, x.symbols, i, fixup, 0).resolved
            THEN reportError(x, "Could not resolve relocation/label (reported by Nyxstone)")
            ELSE x

RECURSIVE HandleFixups(_, _, _, _, _)
\* MCAssembler::layout, second half: evaluate fixup k of fragment i; an unresolved
\* one goes to the object writer, which may set the value; the value is applied
HandleFixups(t, start_address, x, i, k) ==
    IF i > Len(x.fragments) THEN x
    ELSE IF k > Len(x.fragments[i].fixups) THEN HandleFixups(t, start_address, x, i + 1, 1)
    ELSE LET fixup == x.fragments[i].fixups[k]
         IN IF IsResolved(x.symbols, fixup)
            THEN LET value == FixupValue(x.fragments, x.symbols, i, fixup)
                     y == adjustFixupValue(x, fixup, value)
                 IN HandleFixups(t, start_address,
                        [y EXCEPT !.fragments[i].contents =
                            ApplyFixup(t, x.fragments[i], fixup, value)],
                        i, k + 1)
            ELSE LET y == recordRelocation(t, start_address, x, i, fixup)
                     rr == resolve_relocation(t, start_address, x.fragments, x.symbols,
                                              i, fixup, 0)
                 IN HandleFixups(t, start_address,
                        IF rr.resolved
                        THEN [y EXCEPT !.fragments[i].contents =
                                 ApplyFixup(t, x.fragments[i], fixup, rr.fixed_value)]
                        ELSE y,
                        i, k + 1)


----------------------------------------------------------------------------
(* ObjectWriterWrapper: fixup validation *)

ThumbBranchKinds == {"fixup_arm_thumb_br", "fixup_arm_thumb_bl", "fixup_arm_thumb_bcc",
                     "fixup_t2_uncondbranch", "fixup_t2_condbranch"}

\* the four checks of validate_arm_thumb, in the order of the code
validate_arm_thumb(x, fixup) ==
    LET symbol == x.symbols[fixup.sym]
        address == SymbolOffset(x.fragments, symbol)
        \* static_cast<int64_t>(symbol.getOffset()) - 4
        offset == ToSigned(symbol.offset) - 4
        a == IF fixup.kind \in {"fixup_thumb_adr_pcrel_10", "fixup_arm_thumb_cp"}
                /\ address % 4 # 0
             THEN reportError(x, "misaligned label address (reported by nyxstone)")
             ELSE x
        b == IF fixup.kind = "fixup_t2_adr_pcrel_12" /\ (offset <= -4096 \/ offset >= 4096)
             THEN reportError(a, "out of range pc-relative fixup value (reported by Nyxstone)")
             ELSE a
        c == IF fixup.kind \in ThumbBranchKinds /\ address % 2 # 0
             THEN reportError(b, "misaligned label address (reported by nyxstone)")
             ELSE b
        d == IF fixup.kind = "fixup_t2_pcrel_10" /\ (offset < -1020 \/ offset > 1020)
             THEN reportError(c, "out of range pc-relative fixup value (reported by Nyxstone)")
             ELSE c
    IN IF fixup.kind = "fixup_t2_pcrel_10" /\ address % 4 # 0
       THEN reportError(d, "misaligned label address (reported by Nyxstone)")
       ELSE d

RECURSIVE ValidateEach(_, _, _, _)
ValidateEach(t, x, fixups, k) ==
    IF k > Len(fixups) THEN x
    ELSE ValidateEach(t,
             IF is_ArmT16_or_ArmT32(t) THEN validate_arm_thumb(x, fixups[k]) ELSE x,
             fixups, k + 1)

\* variant: no supplemental validation
validate_fixupsSkipped(t, x, fragment) == x

validate_fixups(t, x, fragment) ==
    IF fragment.kind \notin {"Data", "Relaxable"} THEN x
    ELSE ValidateEach(t, x, fragment.fixups, 1)

----------------------------------------------------------------------------
(* ObjectWriterWrapper::writeObject *)

RECURSIVE UpdateData(_, _, _, _)
\* the while (true) loop over one data fragment; curr_insn counts from 0 as in
\* the code and is a valid index on entry
UpdateData(contents, instructions, curr_insn, frag_pos) ==
    LET insn_len == Len(instructions[curr_insn + 1].bytes)
    IN IF frag_pos + insn_len > Len(contents)
       THEN [instructions |-> instructions, curr_insn |-> curr_insn,
             shortfall |-> frag_pos < Len(contents)]
       ELSE LET updated == [instructions EXCEPT ![curr_insn + 1].bytes =
                                SubSeq(contents, frag_pos + 1, frag_pos + insn_len)]
            IN IF curr_insn + 1 >= Len(instructions)
               THEN [instructions |-> updated, curr_insn |-> curr_insn + 1,
                     shortfall |-> FALSE]
               ELSE UpdateData(contents, updated, curr_insn + 1, frag_pos + insn_len)

RECURSIVE UpdateFragments(_, _, _, _)
\* the loop over the fragments of .text
UpdateFragments(t, x, i, curr_insn) ==
    IF i > Len(x.fragments) THEN x
    ELSE
      LET fragment == x.fragments[i]
          v == validate_fixups(t, x, fragment)
      IN IF ~v.want_instructions THEN UpdateFragments(t, v, i + 1, curr_insn)
         ELSE IF fragment.kind \in {"Data", "Relaxable"} /\ curr_insn >= Len(v.instructions)
              \* instructions->at(curr_insn) throws std::out_of_range
              THEN [v EXCEPT !.thrown = TRUE]
         ELSE LET u == IF fragment.kind = "Data"
                       THEN UpdateData(fragment.contents, v.instructions, curr_insn, 0)
                       ELSE IF fragment.kind = "Relaxable"
                       THEN [instructions |->
                                [v.instructions EXCEPT ![curr_insn + 1].bytes = fragment.contents],
                             curr_insn |-> curr_insn + 1, shortfall |-> FALSE]
                       ELSE [instructions |-> v.instructions, curr_insn |-> curr_insn,
                             shortfall |-> FALSE]
                  w == [v EXCEPT !.instructions = u.instructions,
                                 !.shortfall = @ \/ u.shortfall]
              IN IF u.curr_insn >= Len(w.instructions) THEN w
                 ELSE UpdateFragments(t, w, i + 1, u.curr_insn)

\* Asm.writeSectionData: the contents of every fragment of .text, in order
SectionData(frags) == Concat([i \in 1..Len(frags) |-> frags[i].contents])

writeObject(t, x) ==
    IF x.extended_error # <<>> THEN x
    ELSE LET u == UpdateFragments(t, x, 1, 0)
         IN IF u.thrown THEN u
            ELSE [u EXCEPT !.output_bytes = SectionData(u.fragments)]

\* MCAssembler::Finish: layout (relaxation, fixups), then the object writer
AssemblerFinish(t, start_address, x) ==
    LET relaxed == [x EXCEPT !.fragments = Relax(t, x.fragments, x.symbols)]
    IN writeObject(t, HandleFixups(t, start_address, relaxed, 1, 1))

\* the end of AsmParser::Run: the stream is finished only if the parser saw no error
ParserFinish(t, start_address, x) ==
    LET y == IF x.HadError THEN x ELSE AssemblerFinish(t, start_address, x)
    IN IF y.thrown
       THEN [y EXCEPT !.pc = "done", !.result = Thrown("std::out_of_range")]
       ELSE [y EXCEPT !.pc = "post"]


----------------------------------------------------------------------------
(* assemble_impl after the parser run, and the two public wrappers *)

\* variant: the first instruction and the first two bytes are dropped unseen
remove_bkptUnchecked(bytes, instructions, want_instructions, has_prepend) ==
    IF ~has_prepend THEN [res |-> Ok(bytes), instructions |-> instructions]
    ELSE [res |-> Ok(Drop(bytes, 2)),
          instructions |-> IF want_instructions /\ instructions # <<>>
                           THEN Tail(instructions) ELSE instructions]

\* [res, instructions]: res is the stripped byte buffer or an error
remove_bkpt(bytes, instructions, want_instructions, has_prepend) ==
    IF ~has_prepend THEN [res |-> Ok(bytes), instructions |-> instructions]
    ELSE IF want_instructions /\ instructions = <<>>
         \* instructions->front() on an empty vector
         THEN [res |-> [kind |-> "undefined", value |-> <<>>, error |-> <<>>],
               instructions |-> instructions]
    ELSE IF want_instructions /\ ~(Len(instructions[1].bytes) = 2
                                   /\ instructions[1].bytes = PREPENDED_BYTES)
         THEN [res |-> Unexpected(<<"Did not find prepended bkpt at first instruction.">>),
               instructions |-> instructions]
    ELSE LET rest == IF want_instructions THEN Tail(instructions) ELSE instructions
         IN IF Len(bytes) < 2 \/ Prefix(bytes, 2) # PREPENDED_BYTES
            THEN [res |-> Unexpected(<<"Did not find prepended bkpt at first two bytes.">>),
                  instructions |-> rest]
            ELSE [res |-> Ok(Drop(bytes, 2)), instructions |-> rest]

RECURSIVE AssignAddressesLate(_, _)
\* variant: current_address advanced before it is stored
AssignAddressesLate(instructions, current_address) ==
    IF instructions = <<>> THEN <<>>
    ELSE LET next == U64(current_address + Len(Head(instructions).bytes))
         IN <<[Head(instructions) EXCEPT !.address = next]>>
            \o AssignAddressesLate(Tail(instructions), next)

RECURSIVE AssignAddresses(_, _)
\* insn.address = current_address; current_address += insn.bytes.size()
AssignAddresses(instructions, current_address) ==
    IF instructions = <<>> THEN <<>>
    ELSE <<[Head(instructions) EXCEPT !.address = current_address]>>
         \o AssignAddresses(Tail(instructions),
                            U64(current_address + Len(Head(instructions).bytes)))

\* Nyxstone::assemble: transform([bytes] { return bytes; })
AssembleWrap(res, bytes) ==
    IF res.kind = "ok" THEN Ok(bytes) ELSE res

\* variant: the pedantic length check left out
LengthCheckDropped(instructions, output_bytes) == Ok(instructions)

\* the length check of assemble_to_instructions
LengthCheck(instructions, output_bytes) ==
    IF SumLen(instructions) # Len(output_bytes)
    THEN Unexpected(<<"Internal error (= insn_byte_length != output_bytes.size)">>)
    ELSE Ok(instructions)

\* Nyxstone::assemble_to_instructions: and_then(length check)
AssembleToInstructionsWrap(res, instructions, output_bytes) ==
    IF res.kind = "ok" THEN LengthCheck(instructions, output_bytes) ELSE res

Wrap(c, res, bytes, instructions) ==
    IF c.op = "assemble" THEN AssembleWrap(res, bytes)
    ELSE AssembleToInstructionsWrap(res, instructions, bytes)

\* variant: only the parser's own error flag is looked at
AssemblyFailedParserOnly(x) == x.HadError

\* if (error || !extended_error.empty()), error being HadError || context.hadError()
AssemblyFailed(x) == x.HadError \/ x.ctxHadError \/ x.extended_error # <<>>

\* assemble_impl from the check of the parser's verdict to its return, then the wrapper
AssembleReturn(c, x) ==
    IF AssemblyFailed(x)
    THEN [x EXCEPT !.pc = "done",
                   !.res = Unexpected(<<"Error during assembly">> \o x.extended_error),
                   !.result = Wrap(c, Unexpected(<<"Error during assembly">> \o x.extended_error),
                                   <<>>, x.instructions)]
    ELSE LET r == remove_bkpt(x.output_bytes, x.instructions, x.want_instructions,
                              x.needs_prepend)
             bytes == IF r.res.kind = "ok" THEN r.res.value ELSE <<>>
             res == IF r.res.kind = "ok" THEN Ok(<<>>) ELSE r.res
             instructions == IF x.want_instructions
                             THEN AssignAddresses(r.instructions, c.address)
                             ELSE r.instructions
         IN [x EXCEPT !.pc = "done",
                      !.bytes = bytes,
                      !.instructions = instructions,
                      !.res = res,
                      !.result = Wrap(c, res, bytes, instructions)]

\* variant: no early return for empty text
AssembleEnterNoEarlyReturn(t, c) == AssembleSetup(t, c)

\* assemble_impl on entry: empty text returns at once
AssembleEnter(t, c) ==
    IF c.assembly = <<>>
    THEN [Cx0 EXCEPT !.pc = "done",
                     !.want_instructions = (c.op = "assemble_to_instructions"),
                     !.res = Ok(<<>>),
                     !.result = Wrap(c, Ok(<<>>), <<>>, <<>>)]
    ELSE AssembleSetup(t, c)

AssembleStep(t, c, x) ==
    CASE x.pc = "parse" -> ParseNext(t, x)
      [] x.pc = "finish" -> ParserFinish(t, c.address, x)
      [] x.pc = "post" -> AssembleReturn(c, x)
      [] OTHER -> x

RECURSIVE RunToEnd(_, _, _)
RunToEnd(t, c, x) ==
    IF x.pc = "done" THEN x ELSE RunToEnd(t, c, AssembleStep(t, c, x))

\* the result of one whole assemble / assemble_to_instructions call
AssembleResult(t, op, assembly, address, labels) ==
    LET c == [NoCall EXCEPT !.op = op, !.assembly = assembly, !.address = address,
                            !.labels = labels]
    IN RunToEnd(t, c, AssembleEnter(t, c)).result

----------------------------------------------------------------------------
(* Backend: the disassembler and the printer *)

\* bytes a caller may hand to disassemble
DisBytes == {0, 144, 191, 235}

ByteSeqs == SeqsUpTo(DisBytes, MaxBytes)

Counts == 0..MaxCount

Decoded(size, text) == [status |-> "Success", size |-> size, text |-> text]
DecodeFail == [status |-> "Fail", size |-> 0, text |-> ""]
DecodeSoftFail == [status |-> "SoftFail", size |-> 0, text |-> ""]

\* MCDisassembler::getInstruction on data.slice(pos), with the printed text.
\* x86_64: 90 is nop, EB xx is a short jump.  Thumb: bf00 is nop, other hints
\* are unpredictable (SoftFail), e000..e7ff is a branch.
getInstruction(t, data) ==
    IF IsThumb(t)
    THEN IF Len(data) < 2 THEN DecodeFail
         ELSE IF data[2] = 191
              THEN IF data[1] = 0 THEN Decoded(2, "nop") ELSE DecodeSoftFail
         ELSE IF data[2] >= 224 /\ data[2] <= 231
              THEN Decoded(2, "b #" \o ToString(data[1]))
         ELSE DecodeFail
    ELSE IF data = <<>> THEN DecodeFail
         ELSE IF data[1] = 144 THEN Decoded(1, "nop")
         ELSE IF data[1] = 235 /\ Len(data) >= 2
              THEN Decoded(2, "jmp " \o ToString(data[2]))
         ELSE DecodeFail

----------------------------------------------------------------------------
(* disassemble_impl and the two public wrappers *)

DisassembleWrap(c, res, disassembly, instructions) ==
    IF res.kind # "ok" THEN res
    ELSE IF c.op = "disassemble" THEN Ok(disassembly)
    ELSE Ok(instructions)

\* disassemble_impl on entry: buffers cleared, empty input returns at once
DisassembleEnter(c) ==
    IF c.bytes = <<>>
    THEN [Cx0 EXCEPT !.pc = "done",
                     !.want_instructions = (c.op = "disassemble_to_instructions"),
                     !.result = DisassembleWrap(c, Ok(<<>>), "", <<>>)]
    ELSE [Cx0 EXCEPT !.pc = "decode",
                     !.want_instructions = (c.op = "disassemble_to_instructions")]

\* variant: what was decoded so far is returned
DecodeErrorPartial(c, x) == DisassembleWrap(c, Ok(<<>>), x.disassembly, x.instructions)

\* the error return of the loop: "Could not disassemble at position .. / address .."
DecodeError(c, x) ==
    DisassembleWrap(c,
        Unexpected(<<[msg |-> "Could not disassemble",
                      position |-> x.pos,
                      address |-> U64(c.address + x.pos)]>>),
        x.disassembly, x.instructions)

\* variant: every instruction gets the start address
NewInstructionAtStart(c, x, res) ==
    [address |-> c.address,
     assembly |-> res.text,
     bytes |-> SubSeq(c.bytes, x.pos + 1, x.pos + res.size)]

\* the Instruction pushed for the instruction decoded at pos
NewInstruction(c, x, res) ==
    [address |-> U64(c.address + x.pos),
     assembly |-> res.text,
     bytes |-> SubSeq(c.bytes, x.pos + 1, x.pos + res.size)]

\* variant: one instruction too many
CountReachedLate(count, insn_count) == count # 0 /\ insn_count > count

\* if (count != 0 && insn_count >= count) break;
CountReached(count, insn_count) == count # 0 /\ insn_count >= count

\* one iteration of the while (true) loop, for the decoder's answer res
DecodeStep(c, x, res) ==
    IF res.status \in {"Fail", "SoftFail"}
       THEN [x EXCEPT !.pc = "done", !.result = DecodeError(c, x)]
       ELSE LET new_insn == NewInstruction(c, x, res)
                y == [x EXCEPT
                        !.disassembly = IF x.want_instructions THEN @
                                        ELSE @ \o res.text \o "\n",
                        !.instructions = IF x.want_instructions THEN Append(@, new_insn)
                                         ELSE @,
                        !.insn_count = @ + 1,
                        !.pos = @ + res.size]
                finished == \/ CountReached(c.count, y.insn_count)
                            \/ y.pos >= Len(c.bytes)
            IN IF finished
               THEN [y EXCEPT !.pc = "done",
                              \* pos is advanced only when the loop goes on
                              !.pos = IF CountReached(c.count, y.insn_count)
                                      THEN x.pos ELSE y.pos,
                              !.result = DisassembleWrap(c, Ok(<<>>), y.disassembly,
                                                         y.instructions)]
               ELSE y

\* one iteration with the Backend's decoder
DecodeNext(t, c, x) == DecodeStep(c, x, getInstruction(t, Drop(c.bytes, x.pos)))

RECURSIVE RunDecoder(_, _, _)
RunDecoder(t, c, x) ==
    IF x.pc = "done" THEN x ELSE RunDecoder(t, c, DecodeNext(t, c, x))

\* the result of one whole disassemble / disassemble_to_instructions call
DisassembleResult(t, op, bytes, address, count) ==
    LET c == [NoCall EXCEPT !.op = op, !.bytes = bytes, !.address = address,
                            !.count = count]
    IN RunDecoder(t, c, DisassembleEnter(c)).result

----------------------------------------------------------------------------
(* nyxstone-cli: strings, numbers, parse_labels, Options::parse *)

\* A string is a sequence of characters.  The characters of label strings:
\* two letters (e is a hexadecimal digit, x is not), two digits, the two
\* delimiters and the minus sign.
LabelChars == {"e", "x", "0", "1", "=", ",", "-"}

\* longest label string
MaxLabelStr == 4

Digits == <<"0", "1", "2", "3", "4", "5", "6", "7", "8", "9", "a", "b", "c", "d", "e", "f">>

IsDigit(ch, base) == \E k \in 1..base : Digits[k] = ch
DigitValue(ch) == (CHOOSE k \in 1..16 : Digits[k] = ch) - 1

\* std::string_view::find: index of the first ch, counted from 1; 0 for npos
RECURSIVE Find(_, _)
Find(str, ch) ==
    IF str = <<>> THEN 0
    ELSE IF Head(str) = ch THEN 1
    ELSE LET k == Find(Tail(str), ch) IN IF k = 0 THEN 0 ELSE k + 1

RECURSIVE Str(_)
\* std::string(name)
Str(chars) == IF chars = <<>> THEN "" ELSE Head(chars) \o Str(Tail(chars))

RECURSIVE DigitRun(_, _)
\* how many leading characters of str are digits of the base
DigitRun(str, base) ==
    IF str = <<>> \/ ~IsDigit(Head(str), base) THEN 0
    ELSE 1 + DigitRun(Tail(str), base)

RECURSIVE DigitsValue(_, _, _)
DigitsValue(str, base, acc) ==
    IF str = <<>> THEN acc
    ELSE DigitsValue(Tail(str), base, U64(acc * base + DigitValue(Head(str))))

\* std::strtoul(str, &end, base) for base 0 or 16: an optional sign, an optional
\* 0x prefix (base 0: a leading 0 alone means octal), then the longest run of
\* digits.  end counts the characters consumed; 0 when nothing was converted.
strtoul(str, base) ==
    LET signed == str # <<>> /\ Head(str) \in {"-", "+"}
        body == IF signed THEN Tail(str) ELSE str
        hex == /\ Len(body) >= 3 /\ body[1] = "0" /\ body[2] \in {"x", "X"}
               /\ IsDigit(body[3], 16)
        radix == IF hex THEN 16
                 ELSE IF base = 16 THEN 16
                 ELSE IF body # <<>> /\ body[1] = "0" THEN 8 ELSE 10
        digits == IF hex THEN SubSeq(body, 3, Len(body)) ELSE body
        n == DigitRun(digits, radix)
        magnitude == DigitsValue(SubSeq(digits, 1, n), radix, 0)
    IN IF n = 0 THEN [value |-> 0, end |-> 0]
       ELSE [value |-> IF signed /\ Head(str) = "-" THEN U64(AddrMod - magnitude)
                       ELSE magnitude,
             end |-> n + (IF hex THEN 2 ELSE 0) + (IF signed THEN 1 ELSE 0)]

\* the characters of the alphabet that allowed_label_chars holds
AllowedLabelChars == {"e", "x", "0", "1", "-"}
\* not_allowed_first_char
NotAllowedFirstChar == {"0", "1", "-"}

\* std::nullopt
NoLabels == [kind |-> "err", value |-> <<>>, error |-> <<>>]

RECURSIVE ParseLabelTokens(_, _)
\* the while loop of parse_labels: the set of values it can return.  It is a
\* set because name.front() of an empty name is undefined: the test on the
\* first character can come out either way.
ParseLabelTokens(remaing_unparsed, labels) ==
    IF remaing_unparsed = <<>> THEN {Ok(labels)}
    ELSE
      LET delim_pos == Find(remaing_unparsed, ",")
          token == IF delim_pos = 0 THEN remaing_unparsed
                   ELSE SubSeq(remaing_unparsed, 1, delim_pos - 1)
          assignment_delim == Find(token, "=")
          name == SubSeq(token, 1, assignment_delim - 1)
          val == SubSeq(token, assignment_delim + 1, Len(token))
          \* val.data() points into the whole string: strtoul reads on past the token
          number == strtoul(SubSeq(remaing_unparsed, assignment_delim + 1,
                                   Len(remaing_unparsed)), 0)
          rest == IF delim_pos = 0 THEN <<>>
                  ELSE SubSeq(remaing_unparsed, delim_pos + 1, Len(remaing_unparsed))
          bad_char == \E k \in 1..Len(name) : name[k] \notin AllowedLabelChars
          bad_first == IF name = <<>> THEN {TRUE, FALSE}
                       ELSE {name[1] \in NotAllowedFirstChar}
          parsed == IF number.end # Len(val) THEN {NoLabels}
                    ELSE ParseLabelTokens(rest,
                             Append(labels, [name |-> Str(name), address |-> number.value]))
      IN IF assignment_delim = 0 THEN {NoLabels}
         ELSE IF bad_char THEN {NoLabels}
         ELSE UNION {IF b THEN {NoLabels} ELSE parsed : b \in bad_first}

\* std::optional<std::vector<LabelDefinition>> parse_labels(labelstr)
parse_labels(labelstr) ==
    IF labelstr = <<>> THEN {Ok(<<>>)} ELSE ParseLabelTokens(labelstr, <<>>)

\* struct Options after construction (cpu and features stay empty here)
Options0 ==
    [triple |-> "x86_64", address |-> 0, labels |-> <<>>, disassemble |-> FALSE,
     show_help |-> FALSE, input |-> [assembly |-> <<>>, hex |-> <<>>]]

\* One <input> argument under its two readings: the statements the assembler
\* sees in it and its characters, which -d decodes as hexadecimal.
CliInputs ==
    {[assembly |-> <<>>, hex |-> <<>>],
     [assembly |-> <<"nop">>, hex |-> <<"n", "o", "p">>],
     [assembly |-> <<"jmp e">>, hex |-> <<"j", "m", "p", " ", "e">>],
     [assembly |-> <<"l:">>, hex |-> <<"l", ":">>],
     [assembly |-> <<"???">>, hex |-> <<"9", "0">>],
     [assembly |-> <<"???">>, hex |-> <<"9", "0", " ", "9", "0">>],
     [assembly |-> <<"???">>, hex |-> <<"9">>],
     [assembly |-> <<"???">>, hex |-> <<"0", "0">>]}

\* The command line as argh presents it: the flags, the option values (the
\* default where the option is absent) and the positional arguments after argv[0].
DefaultArgs ==
    [help |-> FALSE, triple |-> "x86_64", address_str |-> <<"0">>, labels_str |-> <<>>,
     disassemble |-> FALSE, pos_args |-> <<[assembly |-> <<"nop">>, hex |-> <<"n", "o", "p">>]>>]

\* every label string on an otherwise plain command line, and every
\* combination of the other arguments with three label strings
CommandLines ==
    {[DefaultArgs EXCEPT !.labels_str = str] : str \in SeqsUpTo(LabelChars, MaxLabelStr)}
    \cup [help : BOOLEAN, triple : {"x86_64", "", "no-such-arch"},
          address_str : {<<"0">>, <<>>, <<"x">>, <<"0", "x", "1", "0">>},
          labels_str : {<<>>, <<"e", "=", "1">>, <<"e">>},
          disassemble : BOOLEAN,
          pos_args : {<<>>} \cup {<<input>> : input \in CliInputs}]

\* what Options::parse returns for one value of parse_labels
ParsedOptions(argv, parse_result) ==
    IF parse_result.kind # "ok" THEN Unexpected(<<"Failed to parse labels">>)
    ELSE IF argv.pos_args = <<>> THEN Unexpected(<<"Missing input">>)
    ELSE IF argv.pos_args[1].hex = <<>> THEN Unexpected(<<"Input is empty">>)
    ELSE Ok([Options0 EXCEPT !.triple = argv.triple,
                             !.address = strtoul(argv.address_str, 0).value,
                             !.labels = parse_result.value,
                             !.disassemble = argv.disassemble,
                             !.input = argv.pos_args[1]])

\* Options::parse: the values it can return, each with the value parse_labels
\* returned on the way (NoResult where it is not called)
OptionsParse(argv) ==
    IF argv.help
    THEN {[res |-> Ok([Options0 EXCEPT !.show_help = TRUE]), parse_result |-> NoResult]}
    ELSE IF argv.triple = ""
    THEN {[res |-> Unexpected(<<"Target triple not specified">>), parse_result |-> NoResult]}
    ELSE IF argv.address_str = <<>>
    THEN {[res |-> Unexpected(<<"Address not specified">>), parse_result |-> NoResult]}
    \* std::stoul throws std::invalid_argument when nothing is converted
    ELSE IF strtoul(argv.address_str, 0).end = 0
    THEN {[res |-> Unexpected(<<"Failed to parse address">>), parse_result |-> NoResult]}
    ELSE IF argv.labels_str = <<>>
    THEN {[res |-> ParsedOptions(argv, Ok(<<>>)), parse_result |-> NoResult]}
    ELSE {[res |-> ParsedOptions(argv, parse_result), parse_result |-> parse_result] :
          parse_result \in parse_labels(argv.labels_str)}

RECURSIVE HexBytes(_)
\* the loop of decode_instruction_bytes: std::stoul(hex_string.substr(i, 2), nullptr, 16),
\* narrowed to uint8_t; thrown when a pair converts nothing
HexBytes(hex_string) ==
    IF hex_string = <<>> THEN [thrown |-> FALSE, result |-> <<>>]
    ELSE LET number == strtoul(SubSeq(hex_string, 1, 2), 16)
             rest == HexBytes(SubSeq(hex_string, 3, Len(hex_string)))
         IN IF number.end = 0 \/ rest.thrown THEN [thrown |-> TRUE, result |-> <<>>]
            ELSE [thrown |-> FALSE, result |-> <<number.value % 256>> \o rest.result]

\* decode_instruction_bytes: spaces dropped, an odd length or an exception gives {}
decode_instruction_bytes(chars) ==
    LET hex_string == SelectSeq(chars, LAMBDA ch : ch # " ")
    IN IF Len(hex_string) % 2 # 0 THEN <<>> ELSE HexBytes(hex_string).result

\* the process before main is entered; left_at is the return or exit statement
\* of main that ended the process
Cli0 ==
    [pc |-> "idle", argv |-> DefaultArgs, options |-> Options0,
     parse_result |-> NoResult, status |-> 0, left_at |-> ""]

----------------------------------------------------------------------------
(* The state machine *)

\* variant: the diagnostic buffer of a failed call is still there
EnteredStale(prev, fresh) ==
    [fresh EXCEPT !.prior = prev.prior,
                  !.extended_error = IF prev.prior = "failed" THEN <<"stale diagnostic">>
                                     ELSE @]

\* the context of a call that is entered: every object the call works on is a
\* local built from the arguments; nothing of the call before is in it
Entered(prev, fresh) == [fresh EXCEPT !.prior = prev.prior]

\* the threads that call into one session at the same time
Threads == 1..2

\* the threads that call NyxstoneBuilder::build at the same time
Builders == 1..2

\* a configured NyxstoneBuilder
NoConfig == [triple |-> "", cpu |-> "", features |-> ""]

\* a thread outside build
Builder0 == [pc |-> "idle", config |-> NoConfig, result |-> NoResult]

Init ==
    /\ triple \in Triples
    /\ call = NoCall
    /\ cx = Cx0
    /\ threads = [th \in Threads |-> [call |-> NoCall, cx |-> Cx0]]
    /\ builders = [b \in Builders |-> Builder0]
    /\ build_common_mutex = 0
    /\ cli = Cli0

\* a caller enters assemble or assemble_to_instructions
Assemble(op, assembly, address, labels) ==
    /\ cx.pc = "idle"
    /\ call' = [NoCall EXCEPT !.op = op, !.assembly = assembly, !.address = address,
                              !.labels = labels]
    /\ cx' = Entered(cx, AssembleEnter(triple, call'))
    /\ UNCHANGED <<cli, triple, threads, builders, build_common_mutex>>

\* the parser handles the next statement (with the streamer callback it triggers)
ParseStatement ==
    /\ cx.pc = "parse"
    /\ cx' = ParseNext(triple, cx)
    /\ UNCHANGED <<cli, triple, call, threads, builders, build_common_mutex>>

\* end of input: layout, relocations, fixup validation, writeObject
Finish ==
    /\ cx.pc = "finish"
    /\ cx' = ParserFinish(triple, call.address, cx)
    /\ UNCHANGED <<cli, triple, call, threads, builders, build_common_mutex>>

\* the verdict: error text or stripped bytes, addresses, the wrapper's result
Return ==
    /\ cx.pc = "post"
    /\ cx' = AssembleReturn(call, cx)
    /\ UNCHANGED <<cli, triple, call, threads, builders, build_common_mutex>>

\* a caller enters disassemble or disassemble_to_instructions
Disassemble(op, bytes, address, count) ==
    /\ cx.pc = "idle"
    /\ call' = [NoCall EXCEPT !.op = op, !.bytes = bytes, !.address = address,
                              !.count = count]
    /\ cx' = Entered(cx, DisassembleEnter(call'))
    /\ UNCHANGED <<cli, triple, threads, builders, build_common_mutex>>

\* the decoder takes the instruction at the current offset
DecodeInstruction ==
    /\ cx.pc = "decode"
    /\ cx' = DecodeNext(triple, call, cx)
    /\ UNCHANGED <<cli, triple, call, threads, builders, build_common_mutex>>

\* the caller has taken the result; the call's transient context is gone
Release ==
    /\ cx.pc = "done"
    /\ call' = NoCall
    /\ cx' = [Cx0 EXCEPT !.prior = IF cx.result.kind = "ok" THEN "clean" ELSE "failed"]
    /\ UNCHANGED <<cli, triple, threads, builders, build_common_mutex>>

AssembleOps == {"assemble", "assemble_to_instructions"}

\* any caller, any arguments
AssembleCall ==
    /\ cx.pc = "idle"
    /\ \E op \in AssembleOps, assembly \in AssembliesOf(triple),
          address \in AddressesOf(triple), labels \in LabelSets :
              Assemble(op, assembly, address, labels)

DisassembleOps == {"disassemble", "disassemble_to_instructions"}

\* the decoder is modelled for the targets whose encodings DisBytes covers
DisTriples == {"x86_64", "thumbv7m"}

DisassembleCall ==
    /\ cx.pc = "idle"
    /\ triple \in DisTriples
    /\ \E op \in DisassembleOps, bytes \in ByteSeqs, address \in AddressesOf(triple),
          count \in Counts : Disassemble(op, bytes, address, count)

Next ==
    \/ AssembleCall
    \/ DisassembleCall
    \/ DecodeInstruction
    \/ ParseStatement
    \/ Finish
    \/ Return
    \/ Release

Spec == Init /\ [][Next]_vars

----------------------------------------------------------------------------
(* Several threads calling into one session *)

\* one step of a call in progress, on the call's own context
CallStep(t, c, x) ==
    CASE x.pc = "parse" -> ParseNext(t, x)
      [] x.pc = "finish" -> ParserFinish(t, c.address, x)
      [] x.pc = "post" -> AssembleReturn(c, x)
      [] x.pc = "decode" -> DecodeNext(t, c, x)
      [] OTHER -> x

\* variant: the diagnostic buffer is one object shared by all calls
IsolatedSharedDiagnostics(stepped, other) ==
    [other EXCEPT !.extended_error = stepped.extended_error]

\* what a step of one call does to the context of another call: extended_error,
\* context, source_manager, output_bytes and the instruction list are locals of
\* the stepping call
Isolated(stepped, other) == other

\* thread th moves to context x of call c; the other threads keep theirs
ThreadMoves(th, c, x) ==
    threads' = [u \in Threads |->
                  IF u = th THEN [call |-> c, cx |-> x]
                  ELSE [threads[u] EXCEPT !.cx = Isolated(x, @)]]

\* the texts, the address and the bytes the concurrent callers pass
ConcurrentTexts(t) ==
    {a \in AssembliesOf(t) : a \in {<<"nop">>, <<"???">>, <<"nop", "nop">>, <<"adrp e">>}}
ConcurrentAddress(t) == IF t = "aarch64" THEN 4096 ELSE AddrMod - 2
ConcurrentBytes == {b \in ByteSeqs : Len(b) = 1}

\* thread th enters assemble or assemble_to_instructions
ThreadAssemble(th) ==
    /\ threads[th].cx.pc = "idle"
    /\ \E op \in AssembleOps, assembly \in ConcurrentTexts(triple) :
          LET c == [NoCall EXCEPT !.op = op, !.assembly = assembly,
                                  !.address = ConcurrentAddress(triple)]
          IN ThreadMoves(th, c, AssembleEnter(triple, c))
    /\ UNCHANGED <<cli, triple, call, cx, builders, build_common_mutex>>

\* thread th enters disassemble or disassemble_to_instructions
ThreadDisassemble(th) ==
    /\ threads[th].cx.pc = "idle"
    /\ triple \in DisTriples
    /\ \E op \in DisassembleOps, bytes \in ConcurrentBytes :
          LET c == [NoCall EXCEPT !.op = op, !.bytes = bytes,
                                  !.address = ConcurrentAddress(triple)]
          IN ThreadMoves(th, c, DisassembleEnter(c))
    /\ UNCHANGED <<cli, triple, call, cx, builders, build_common_mutex>>

\* thread th runs the next step of its call
ThreadStep(th) ==
    /\ threads[th].cx.pc \in {"parse", "finish", "post", "decode"}
    /\ ThreadMoves(th, threads[th].call, CallStep(triple, threads[th].call, threads[th].cx))
    /\ UNCHANGED <<cli, triple, call, cx, builders, build_common_mutex>>

\* thread th has taken its result
ThreadRelease(th) ==
    /\ threads[th].cx.pc = "done"
    /\ ThreadMoves(th, NoCall, Cx0)
    /\ UNCHANGED <<cli, triple, call, cx, builders, build_common_mutex>>

NextConcurrent ==
    \/ \E th \in Threads : ThreadAssemble(th)
    \/ \E th \in Threads : ThreadDisassemble(th)
    \/ \E th \in Threads : ThreadStep(th)
    \/ \E th \in Threads : ThreadRelease(th)

SpecConcurrent == Init /\ [][NextConcurrent]_vars


----------------------------------------------------------------------------
(* NyxstoneBuilder::build *)

\* architectures llvm::Triple knows; targets the Backend was built with
KnownArchs == Triples \cup {"bpf"}
RegisteredTargets == Triples

\* what a builder can be configured with
BuildConfigs ==
    [triple : {"x86_64", "bpf", "no-such-arch"}, cpu : {"", "no-such-cpu"},
     features : {"", "+no-such-feature"}]

\* the CPU names and feature strings the Backend's tables hold
KnownCpus == {""}
KnownFeatures == {""}

\* target->createMCSubtargetInfo never returns null: a CPU or a feature the
\* tables do not hold is ignored (with a warning on stderr)
createMCSubtargetInfo(t, cpu, features) ==
    [triple |-> t,
     cpu |-> IF cpu \in KnownCpus THEN cpu ELSE "",
     features |-> IF features \in KnownFeatures THEN features ELSE ""]

\* build() between taking and releasing the mutex
BuildResult(config) ==
    IF config.triple \notin KnownArchs
    THEN Unexpected(<<"Invalid architecture / LLVM target triple">>)
    ELSE IF config.triple \notin RegisteredTargets
    THEN Unexpected(<<"lookup_target_error">>)
    ELSE Ok(createMCSubtargetInfo(config.triple, config.cpu, config.features))

\* variant: build without the lock
lock_guardAbsent(mutex) == TRUE

\* const std::lock_guard<std::mutex> lock(build_common_mutex) returns when
\* the mutex is free
lock_guard(mutex) == mutex = 0

\* thread b calls build() on a configured builder
Build(b) ==
    /\ builders[b].pc = "idle"
    /\ \E config \in BuildConfigs :
          builders' = [builders EXCEPT ![b] = [@ EXCEPT !.pc = "lock", !.config = config]]
    /\ UNCHANGED <<cli, triple, call, cx, threads, build_common_mutex>>

Lock(b) ==
    /\ builders[b].pc = "lock"
    /\ lock_guard(build_common_mutex)
    /\ build_common_mutex' = b
    /\ builders' = [builders EXCEPT ![b].pc = "initialize"]
    /\ UNCHANGED <<cli, triple, call, cx, threads>>

\* llvm::InitializeAllTargetInfos() ... InitializeAllDisassemblers()
Initialize(b) ==
    /\ builders[b].pc = "initialize"
    /\ builders' = [builders EXCEPT ![b].pc = "construct"]
    /\ UNCHANGED <<cli, triple, call, cx, threads, build_common_mutex>>

\* target lookup and creation of the info objects, up to the return statement
Construct(b) ==
    /\ builders[b].pc = "construct"
    /\ builders' = [builders EXCEPT ![b] = [@ EXCEPT !.pc = "unlock",
                                                      !.result = BuildResult(builders[b].config)]]
    /\ UNCHANGED <<cli, triple, call, cx, threads, build_common_mutex>>

\* variant: an error return leaves the mutex locked
UnlockOnSuccess(b) ==
    /\ builders[b].pc = "unlock"
    /\ build_common_mutex' = IF builders[b].result.kind = "ok" THEN 0 ELSE build_common_mutex
    /\ builders' = [builders EXCEPT ![b].pc = "done"]
    /\ UNCHANGED <<cli, triple, call, cx, threads>>

\* the lock_guard goes out of scope
Unlock(b) ==
    /\ builders[b].pc = "unlock"
    /\ build_common_mutex' = 0
    /\ builders' = [builders EXCEPT ![b].pc = "done"]
    /\ UNCHANGED <<cli, triple, call, cx, threads>>

\* the caller has taken the session or the error
BuildRelease(b) ==
    /\ builders[b].pc = "done"
    /\ builders' = [builders EXCEPT ![b] = Builder0]
    /\ UNCHANGED <<cli, triple, call, cx, threads, build_common_mutex>>

\* builds on any thread, and calls into an existing session meanwhile
NextBuild ==
    \/ \E b \in Builders : Build(b)
    \/ \E b \in Builders : Lock(b)
    \/ \E b \in Builders : Initialize(b)
    \/ \E b \in Builders : Construct(b)
    \/ \E b \in Builders : Unlock(b)
    \/ \E b \in Builders : BuildRelease(b)
    \/ ThreadAssemble(1)
    \/ ThreadDisassemble(1)
    \/ ThreadStep(1)
    \/ ThreadRelease(1)

SpecBuild == Init /\ [][NextBuild]_vars

\* every thread calls build() once
NextBuildOnce ==
    \/ \E b \in Builders : Build(b)
    \/ \E b \in Builders : Lock(b)
    \/ \E b \in Builders : Initialize(b)
    \/ \E b \in Builders : Construct(b)
    \/ \E b \in Builders : Unlock(b)

\* a thread inside build() keeps running: it takes the mutex when the mutex
\* stays free, and each of its steps after that is taken
BuildFairness ==
    \A b \in Builders :
        /\ WF_vars(Lock(b))
        /\ WF_vars(Initialize(b))
        /\ WF_vars(Construct(b))
        /\ WF_vars(Unlock(b))

SpecBuildFair == Init /\ [][NextBuildOnce]_vars /\ BuildFairness

----------------------------------------------------------------------------
(* Calls with external labels: label lists with repeated names, labels below *)
(* the start address, at every alignment, and at the edge of the ADR range   *)

\* longest label list of one call, and longest text of such a call
MaxLabels == 2

LabelTriples == {"thumbv7m", "x86_64"}

LabelStmtsOf(t) ==
    IF IsThumb(t) THEN {"nop", "jmp e", "vldr e", "adr e"} ELSE {"nop", "jmp e"}

\* even start addresses: 0 modulo 4, and 2 modulo 4 (6 modulo 8)
LabelCallAddresses == {4096, 4102}

\* below the start address near the lower edge of the ADR range, behind the
\* start address at each alignment, and at the upper edge of the ADR range
ExternalAddresses == {6, 4100, 4101, 4102, 8196}

ExternalLabels == SeqsUpTo([name : {"e"}, address : ExternalAddresses], MaxLabels)

InitLabels ==
    /\ triple \in LabelTriples
    /\ call = NoCall
    /\ cx = Cx0
    /\ threads = [th \in Threads |-> [call |-> NoCall, cx |-> Cx0]]
    /\ builders = [b \in Builders |-> Builder0]
    /\ build_common_mutex = 0
    /\ cli = Cli0

LabelCall ==
    /\ cx.pc = "idle"
    /\ \E op \in AssembleOps, assembly \in SeqsUpTo(LabelStmtsOf(triple), MaxLabels),
          address \in LabelCallAddresses, labels \in ExternalLabels :
              Assemble(op, assembly, address, labels)

NextLabels ==
    \/ LabelCall
    \/ ParseStatement
    \/ Finish
    \/ Return
    \/ Release

SpecLabels == InitLabels /\ [][NextLabels]_vars

----------------------------------------------------------------------------
(* nyxstone-cli: main *)

\* the process is started with a command line
Main ==
    /\ cli.pc = "idle"
    /\ \E argv \in CommandLines : cli' = [Cli0 EXCEPT !.pc = "parse", !.argv = argv]
    /\ UNCHANGED <<triple, call, cx, threads, builders, build_common_mutex>>

\* main leaves with a status
Exit(c, left_at, status) == [c EXCEPT !.pc = "exited", !.left_at = left_at, !.status = status]

\* Options::parse and the two tests on its result
ParseOptions ==
    /\ cli.pc = "parse"
    /\ \E parsed \in OptionsParse(cli.argv) :
          LET c == [cli EXCEPT !.parse_result = parsed.parse_result]
          IN cli' = IF parsed.res.kind # "ok" THEN Exit(c, "parse", 1)
                    ELSE IF parsed.res.value.show_help THEN Exit(c, "help", 0)
                    ELSE [c EXCEPT !.pc = "build", !.options = parsed.res.value]
    /\ UNCHANGED <<triple, call, cx, threads, builders, build_common_mutex>>

\* NyxstoneBuilder(triple).with_cpu(cpu).with_features(features).build()
BuildSession ==
    /\ cli.pc = "build"
    /\ cli' = IF BuildResult([triple |-> cli.options.triple, cpu |-> "", features |-> ""]).kind
                  # "ok"
              THEN Exit(cli, "build", 1)
              ELSE [cli EXCEPT !.pc = "run"]
    /\ UNCHANGED <<triple, call, cx, threads, builders, build_common_mutex>>

\* the labels the text of the call can refer to
SessionLabels(labels) == SelectSeq(labels, LAMBDA label : label.name \in LabelNames)

\* the status main ends with after the call on the session: map_error calls
\* exit(1), main returns 0 at its end, an exception out of the call is not caught
StatusOf(c, result) ==
    CASE result.kind = "ok" -> Exit(c, "end", 0)
      [] result.kind = "err" -> Exit(c, "operation", 1)
      [] OTHER -> Exit(c, "terminate", 134)

\* the second half of main: decode and disassemble, or assemble, and print
RunOperation ==
    /\ cli.pc = "run"
    /\ cli' =
         IF cli.options.disassemble
         THEN LET bytes == decode_instruction_bytes(cli.options.input.hex)
              IN IF bytes = <<>> THEN Exit(cli, "hex", 1)
                 ELSE StatusOf(cli, DisassembleResult(cli.options.triple,
                                        "disassemble_to_instructions", bytes,
                                        cli.options.address, 0))
         ELSE StatusOf(cli, AssembleResult(cli.options.triple, "assemble_to_instructions",
                                cli.options.input.assembly, cli.options.address,
                                SessionLabels(cli.options.labels)))
    /\ UNCHANGED <<triple, call, cx, threads, builders, build_common_mutex>>

\* the process is gone
Exited ==
    /\ cli.pc = "exited"
    /\ cli' = Cli0
    /\ UNCHANGED <<triple, call, cx, threads, builders, build_common_mutex>>

InitCli ==
    /\ triple = "x86_64"
    /\ call = NoCall
    /\ cx = Cx0
    /\ threads = [th \in Threads |-> [call |-> NoCall, cx |-> Cx0]]
    /\ builders = [b \in Builders |-> Builder0]
    /\ build_common_mutex = 0
    /\ cli = Cli0

NextCli ==
    \/ Main
    \/ ParseOptions
    \/ BuildSession
    \/ RunOperation
    \/ Exited

SpecCli == InitCli /\ [][NextCli]_vars

----------------------------------------------------------------------------
(* disassemble with any decoder: the loop for every answer getInstruction can *)
(* give, not only the answers of the two modelled targets                     *)

\* the answers MCDisassembler::getInstruction can give for the bytes at pos:
\* Fail, SoftFail, or Success with a size between 0 and the bytes that remain
DecoderResults(data) ==
    {DecodeFail, DecodeSoftFail} \cup {Decoded(size, "insn") : size \in 0..Len(data)}

\* the inputs: the byte values play no part here
DecoderInputs == {bytes \in ByteSeqs : \A k \in 1..Len(bytes) : bytes[k] = 144}

DecoderCall ==
    /\ cx.pc = "idle"
    /\ \E op \in DisassembleOps, bytes \in DecoderInputs, address \in AddressesOf(triple),
          count \in Counts : Disassemble(op, bytes, address, count)

\* one iteration of the loop; the model follows a call for at most MaxBytes + 1
\* iterations
DecodeAny ==
    /\ cx.pc = "decode"
    /\ cx.insn_count <= MaxBytes
    /\ \E res \in DecoderResults(Drop(call.bytes, cx.pos)) :
          cx' = DecodeStep(call, cx, res)
    /\ UNCHANGED <<cli, triple, call, threads, builders, build_common_mutex>>

InitDecoder ==
    /\ triple \in DisTriples
    /\ call = NoCall
    /\ cx = Cx0
    /\ threads = [th \in Threads |-> [call |-> NoCall, cx |-> Cx0]]
    /\ builders = [b \in Builders |-> Builder0]
    /\ build_common_mutex = 0
    /\ cli = Cli0

NextDecoder ==
    \/ DecoderCall
    \/ DecodeAny
    \/ Release

SpecDecoder == InitDecoder /\ [][NextDecoder]_vars

----------------------------------------------------------------------------
(* What the properties speak about *)

Done == cx.pc = "done"
Succeeded == Done /\ cx.result.kind = "ok"
Failed == Done /\ cx.result.kind = "err"

Min(a, b) == IF a < b THEN a ELSE b

RECURSIVE SumSeq(_)
SumSeq(q) == IF q = <<>> THEN 0 ELSE Head(q) + SumSeq(Tail(q))

BytesOf(insns) == [k \in 1..Len(insns) |-> insns[k].bytes]

RECURSIVE Pick(_, _, _)
\* the bytes of a data fragment that statement src emitted
Pick(contents, owners, src) ==
    IF contents = <<>> THEN <<>>
    ELSE (IF Head(owners) = src THEN <<Head(contents)>> ELSE <<>>)
         \o Pick(Tail(contents), Tail(owners), src)

\* the final bytes the encoder emitted for statement src of the parsed text
OwnedBytes(frags, src) ==
    Concat([i \in 1..Len(frags) |->
              IF frags[i].kind = "Relaxable"
              THEN IF frags[i].owners[1] = src THEN frags[i].contents ELSE <<>>
              ELSE Pick(frags[i].contents, frags[i].owners, src)])

RECURSIVE EncoderBytes(_, _, _)
\* per instruction statement of the caller's text, in order, the encoder's bytes
EncoderBytes(t, x, k) ==
    IF k > Len(x.input_assembly) THEN <<>>
    ELSE LET stmt == x.input_assembly[k]
             sentinel == x.needs_prepend /\ k = 1
         IN (IF IsInstruction(t, stmt) /\ ~sentinel
             THEN <<OwnedBytes(x.fragments, k)>> ELSE <<>>)
            \o EncoderBytes(t, x, k + 1)

\* a branch in the text to a label that the text does not define and the
\* label set does not supply
\* a statement that refers to a label
HasReference(stmt) ==
    stmt \in {"jmp l", "jmp e", "adrp l", "adrp e", "vldr l", ".long l", "vldr e", "adr e"}

ReferencesUndefined(c) ==
    \E i \in 1..Len(c.assembly) :
        /\ HasReference(c.assembly[i])
        /\ ~(\E j \in 1..Len(c.assembly) :
                IsLabelDef(c.assembly[j]) /\ FixupSymbol(c.assembly[i]) = "l")
        /\ ~(\E j \in 1..Len(c.labels) : c.labels[j].name = FixupSymbol(c.assembly[i]))

LabelUndefined == "Label undefined (reported by Nyxstone)"

InSeq(e, q) == \E k \in 1..Len(q) : q[k] = e

IsPrefixOf(p, q) == Len(p) <= Len(q) /\ Prefix(q, Len(p)) = p

RECURSIVE DecodeSizes(_, _)
\* the sizes of the instructions met when decoding data front to back; a
\* final 0 stands for an instruction that does not decode
DecodeSizes(t, data) ==
    IF data = <<>> THEN <<>>
    ELSE LET r == getInstruction(t, data)
         IN IF r.status # "Success" THEN <<0>>
            ELSE <<r.size>> \o DecodeSizes(t, Drop(data, r.size))

\* how many instructions a call with this count asks for, at most
Wanted(count, sizes) == IF count = 0 THEN Len(sizes) ELSE Min(count, Len(sizes))

\* the decoder fails on one of the instructions the call asks for
FailsWithin(count, sizes) ==
    \E k \in 1..Wanted(count, sizes) : sizes[k] = 0

----------------------------------------------------------------------------
(* Properties *)

\* C1: a successful assemble_to_instructions returns instructions whose byte
\* lengths add up to the length of what assemble returns for the same text,
\* address and labels; when the recorded lengths and the emitted length differ
\* the call returns the internal length error, not a list.
C1_ByteLengthRoundTrip ==
    (Done /\ call.op = "assemble_to_instructions" /\ cx.result.kind \in {"ok", "err"}) =>
        /\ cx.result.kind = "ok" =>
              LET b == AssembleResult(triple, "assemble", call.assembly, call.address,
                                      call.labels)
              IN b.kind = "ok" /\ SumLen(cx.result.value) = Len(b.value)
        /\ (cx.res.kind = "ok" /\ SumLen(cx.instructions) # Len(cx.bytes)) =>
              cx.result = Unexpected(<<"Internal error (= insn_byte_length != output_bytes.size)">>)

C1_Witness ==
    /\ Succeeded /\ call.op = "assemble_to_instructions"
    /\ Len(cx.result.value) >= 2
    /\ SumLen(cx.result.value) >= 6

\* C2: every instruction of a successful assemble_to_instructions holds exactly
\* the bytes the encoder emitted for its own statement, after relaxation and
\* fixups, and nothing emitted for another instruction or by a directive.
C2_ExactInstructionBytes ==
    (Succeeded /\ call.op = "assemble_to_instructions") =>
        BytesOf(cx.result.value) = EncoderBytes(triple, cx, 1)

\* C3: in a successful assemble_to_instructions, instruction k sits at the start
\* address plus the final lengths of the instructions before it, modulo the word
\* size; no address is assigned while the lengths can still change.
C3_Addresses ==
    /\ (Succeeded /\ call.op = "assemble_to_instructions") =>
          \A k \in 1..Len(cx.result.value) :
              cx.result.value[k].address
                  = U64(call.address + SumLen(Prefix(cx.result.value, k - 1)))
    /\ cx.pc \in {"parse", "finish", "post"} =>
          \A k \in 1..Len(cx.instructions) : cx.instructions[k].address = 0

C3_Witness ==
    /\ Succeeded /\ call.op = "assemble_to_instructions"
    /\ Len(cx.result.value) >= 2
    /\ Len(cx.result.value[1].bytes) > Len(EncShort(triple, 0))
    /\ cx.result.value[2].address < call.address

\* C4: empty text gives an empty success, whatever the address, the labels and
\* the target are.
C4_EmptyText ==
    (Done /\ call.op \in AssembleOps /\ call.assembly = <<>>) => cx.result = Ok(<<>>)

C4_Witness ==
    /\ Done /\ call.op = "assemble_to_instructions" /\ call.assembly = <<>>
    /\ is_ArmT16_or_ArmT32(triple) /\ call.address % 4 = 2
    /\ call.labels # <<>>

\* C5 as stated: a reference to an undefined label makes the call return a
\* label-undefined error.
C5_LabelUndefinedError ==
    (Done /\ call.op \in AssembleOps /\ ReferencesUndefined(call)) =>
        cx.result.kind = "err" /\ InSeq(LabelUndefined, cx.result.error)

\* C5 amended: a reference to an undefined label makes the call return an
\* error, never bytes or instructions; the error holds the label-undefined
\* diagnostic unless the parser rejected a statement of the text (then the
\* stream is never finished and only the parser's diagnostics are returned).
C5_UndefinedLabelFails ==
    (Done /\ call.op \in AssembleOps /\ ReferencesUndefined(call)) =>
        /\ cx.result.kind = "err"
        /\ ~cx.HadError => InSeq(LabelUndefined, cx.result.error)

C5_Witness ==
    /\ Failed /\ call.op = "assemble" /\ ReferencesUndefined(call)
    /\ ~cx.HadError
    /\ call.labels # <<>>

\* C6: once a diagnostic has been reported in an assemble call, at whatever
\* stage, it stays reported and the call ends with an error that carries the
\* diagnostic text, never with a success.
C6_DiagnosticFails ==
    /\ [](Done /\ call.op \in AssembleOps /\ cx.extended_error # <<>> =>
              cx.result = Unexpected(<<"Error during assembly">> \o cx.extended_error))
    /\ [][(call.op \in AssembleOps /\ cx.extended_error # <<>> /\ ~Done) =>
              /\ cx'.pc \in {"parse", "finish", "post", "done"}
              /\ IsPrefixOf(cx.extended_error, cx'.extended_error)]_vars

C6_Witness ==
    /\ Failed /\ call.op \in AssembleOps
    /\ Len(cx.extended_error) >= 2
    /\ cx.extended_error[1] # cx.extended_error[2]

\* C7: every public operation ends with a success or an error value; none
\* throws.
C7_NeverThrows ==
    Done => cx.result.kind \in {"ok", "err"}

\* C8: a decode failure on one of the instructions a disassemble call asks for
\* makes the call return an error that names the failing offset and the address
\* start + offset; nothing decoded before it is returned.
C8_DecodeFailure ==
    (Done /\ call.op \in DisassembleOps) =>
        LET sizes == DecodeSizes(triple, call.bytes)
        IN FailsWithin(call.count, sizes) =>
              LET offset == SumSeq(sizes)
              IN cx.result = Unexpected(<<[msg |-> "Could not disassemble",
                                           position |-> offset,
                                           address |-> U64(call.address + offset)]>>)

C8_Witness ==
    /\ Failed /\ call.op = "disassemble_to_instructions"
    /\ cx.instructions # <<>>
    /\ cx.result.error[1].position > 0
    /\ cx.result.error[1].address < call.address

\* C9: with count = 0 all instructions of the input are decoded; with
\* count = n > 0 exactly min(n, instructions in the input) are, and the call
\* succeeds whenever those decode, whatever follows them.
C9_Count ==
    (Done /\ call.op \in DisassembleOps) =>
        LET sizes == DecodeSizes(triple, call.bytes)
            m == Wanted(call.count, sizes)
        IN ~FailsWithin(call.count, sizes) =>
              /\ cx.result.kind = "ok"
              /\ cx.insn_count = m
              /\ call.op = "disassemble_to_instructions" =>
                    /\ Len(cx.result.value) = m
                    /\ SumLen(cx.result.value) = SumSeq(Prefix(sizes, m))

C9_Witness ==
    /\ Succeeded /\ call.op \in DisassembleOps
    /\ call.count > 0
    /\ cx.insn_count = call.count
    /\ LET sizes == DecodeSizes(triple, call.bytes)
       IN sizes[Len(sizes)] = 0

\* C10: with count = 0 the instructions of a successful
\* disassemble_to_instructions partition the input: each starts where the one
\* before ended, at offset and address alike, holds the input bytes of its span,
\* and together they are the whole input.
C10_Partition ==
    (Succeeded /\ call.op = "disassemble_to_instructions" /\ call.count = 0) =>
        /\ Concat(BytesOf(cx.result.value)) = call.bytes
        /\ \A k \in 1..Len(cx.result.value) :
              /\ Len(cx.result.value[k].bytes) > 0
              /\ cx.result.value[k].address
                    = U64(call.address + SumLen(Prefix(cx.result.value, k - 1)))

C10_Witness ==
    /\ Succeeded /\ call.op = "disassemble_to_instructions" /\ call.count = 0
    /\ Len(cx.result.value) >= 3
    /\ Len(cx.result.value[1].bytes) # Len(cx.result.value[2].bytes)
    /\ cx.result.value[3].address < call.address


\* C11: on a Thumb target, the same text without external labels assembled at
\* A and at A + 4, A = 2 modulo 4, has the same outcome, the same bytes and the
\* same instruction texts; only the instruction addresses differ, by 4.
C11_AlignmentTransparency ==
    (Done /\ call.op \in AssembleOps /\ IsThumb(triple)
          /\ call.labels = <<>> /\ call.address % 4 = 2) =>
        LET r == AssembleResult(triple, call.op, call.assembly, U64(call.address + 4), <<>>)
        IN /\ r.kind = cx.result.kind
           /\ r.error = cx.result.error
           /\ IF call.op = "assemble" THEN r.value = cx.result.value
              ELSE /\ Len(r.value) = Len(cx.result.value)
                   /\ \A k \in 1..Len(r.value) :
                         /\ r.value[k].bytes = cx.result.value[k].bytes
                         /\ r.value[k].assembly = cx.result.value[k].assembly
                         /\ r.value[k].address = U64(cx.result.value[k].address + 4)

C11_Witness ==
    /\ Succeeded /\ call.op = "assemble_to_instructions" /\ IsThumb(triple)
    /\ call.labels = <<>> /\ call.address % 4 = 2
    /\ Len(cx.result.value) >= 2
    /\ \E k \in 1..Len(cx.result.value) : cx.result.value[k].assembly = "vldr l"

\* the Backend output of a call with the sentinel begins with the sentinel
SentinelFound(x) ==
    /\ Len(x.output_bytes) >= 2 /\ Prefix(x.output_bytes, 2) = PREPENDED_BYTES
    /\ x.want_instructions =>
          x.instructions # <<>> /\ x.instructions[1].bytes = PREPENDED_BYTES

\* C12: when the sentinel was prepended and the Backend reported nothing, the
\* call succeeds only if the output begins with the sentinel's two bytes (in
\* instruction mode: and the first record is exactly those bytes); what it
\* returns is the Backend output without them; otherwise it returns an error.
C12_SentinelStripped ==
    [][(cx.pc = "post" /\ cx.needs_prepend /\ ~AssemblyFailed(cx)) =>
          /\ cx'.pc = "done"
          /\ ~SentinelFound(cx) => cx'.result.kind = "err"
          /\ (SentinelFound(cx) /\ call.op = "assemble") =>
                cx'.result = Ok(Drop(cx.output_bytes, 2))
          /\ cx'.result.kind = "ok" =>
                /\ SentinelFound(cx)
                /\ call.op = "assemble_to_instructions" =>
                      /\ BytesOf(cx'.result.value) = BytesOf(Tail(cx.instructions))
                      /\ Concat(BytesOf(cx'.result.value)) = Drop(cx.output_bytes, 2)
                      /\ \A k \in 1..Len(cx'.result.value) :
                            cx'.result.value[k].assembly = cx.instructions[k + 1].assembly]_vars

C12_Witness ==
    /\ Succeeded /\ call.op = "assemble_to_instructions" /\ cx.needs_prepend
    /\ Prefix(cx.output_bytes, 2) = PREPENDED_BYTES
    /\ cx.result.value # <<>>
    /\ Concat(BytesOf(cx.result.value)) = Drop(cx.output_bytes, 2)
    /\ \A k \in 1..Len(cx.result.value) : cx.result.value[k].assembly # PREPENDED_ASSEMBLY

\* C13: whatever calls were made on the session before, a call returns what the
\* same call returns as the first call of a fresh session.
C13_Stateless ==
    Done =>
        cx.result = IF call.op \in AssembleOps
                    THEN AssembleResult(triple, call.op, call.assembly, call.address,
                                        call.labels)
                    ELSE DisassembleResult(triple, call.op, call.bytes, call.address,
                                           call.count)

C13_Witness ==
    /\ Succeeded /\ cx.prior = "failed"
    /\ call.op = "assemble" /\ call.assembly = <<"jmp e">> /\ call.labels # <<>>
    /\ triple = "x86_64" /\ call.address = 4096
    /\ cx.result.value = <<233, 251, 240, 255, 255>>

\* what the call of thread th returns when it is the only call on the session
AloneResult(th) ==
    LET c == threads[th].call
    IN IF c.op \in AssembleOps
       THEN AssembleResult(triple, c.op, c.assembly, c.address, c.labels)
       ELSE DisassembleResult(triple, c.op, c.bytes, c.address, c.count)

\* every finished call of every thread has the result it has alone
EachAsAlone ==
    \A th \in Threads :
        threads[th].cx.pc = "done" => threads[th].cx.result = AloneResult(th)

\* C14: calls that run concurrently on one session, in any interleaving, each
\* return what they return when run alone, and no step of a call writes the
\* session.
C14_ConcurrentCalls ==
    /\ []EachAsAlone
    /\ [][threads' # threads => triple' = triple]_vars

C14_Witness ==
    \E th \in Threads, u \in Threads :
        /\ th # u
        /\ threads[th].cx.pc = "done" /\ threads[th].cx.result.kind = "ok"
        /\ threads[th].call.op = "assemble_to_instructions"
        /\ threads[th].cx.result.value # <<>>
        /\ threads[u].cx.pc = "post" /\ threads[u].cx.extended_error # <<>>

\* the threads inside build's registration and construction
InBuild == {b \in Builders : builders[b].pc \in {"initialize", "construct", "unlock"}}

\* at most one thread is inside, and it holds the mutex
BuildsSerialized ==
    /\ Cardinality(InBuild) <= 1
    /\ \A b \in InBuild : build_common_mutex = b

\* C15: at most one thread at a time is inside build's registration and
\* construction, and it holds the mutex; no step of an assemble or disassemble
\* call takes or releases the mutex.
C15_BuildMutex ==
    /\ []BuildsSerialized
    /\ [][threads' # threads => build_common_mutex' = build_common_mutex]_vars

C15_Witness ==
    \E b \in Builders, w \in Builders :
        /\ build_common_mutex = b /\ builders[b].pc = "construct"
        /\ builders[w].pc = "lock"
        /\ threads[1].cx.pc = "finish"

\* triple, CPU name and feature string are all known to the Backend
ValidConfig(config) ==
    /\ config.triple \in RegisteredTargets
    /\ config.cpu \in KnownCpus
    /\ config.features \in KnownFeatures

\* C16: build returns an error, and no session, whenever the triple, the CPU
\* name or the feature string is unknown to the Backend.
C16_InvalidConfigRejected ==
    \A b \in Builders :
        (builders[b].pc \in {"unlock", "done"} /\ ~ValidConfig(builders[b].config)) =>
            builders[b].result.kind = "err"

RECURSIVE Count(_, _)
\* how often e is in q
Count(e, q) == IF q = <<>> THEN 0 ELSE (IF Head(q) = e THEN 1 ELSE 0) + Count(e, Tail(q))

\* the statements of the text that reference a label defined nowhere
UndefinedReferences(c) ==
    {i \in 1..Len(c.assembly) :
        /\ HasReference(c.assembly[i])
        /\ ~(FixupSymbol(c.assembly[i]) = "l" /\ InSeq("l:", c.assembly))
        /\ ~(\E j \in 1..Len(c.labels) : c.labels[j].name = FixupSymbol(c.assembly[i]))}

\* the diagnostics of the fixup validation
ValidationDiagnostics ==
    {"misaligned label address (reported by nyxstone)",
     "misaligned label address (reported by Nyxstone)",
     "out of range pc-relative fixup value (reported by Nyxstone)"}

\* C17 as stated: the diagnostics that apply to the text all appear in the
\* error of the call, the parser's before the label-undefined ones.
C17_AllDiagnostics ==
    (Done /\ call.op \in AssembleOps /\ InSeq("???", call.assembly)
          /\ UndefinedReferences(call) # {}) =>
        /\ cx.result.kind = "err"
        /\ \E i, j \in 1..Len(cx.result.error) :
              /\ i < j
              /\ cx.result.error[i] = "invalid instruction"
              /\ cx.result.error[j] = LabelUndefined

\* C17 amended: the diagnostics of a call are appended to one error in the
\* order reported, one for every statement the parser rejects and, when the
\* parser rejected none, one for every reference to an undefined label; a
\* parser error keeps layout from running, and the fixup validation reports
\* only when nothing was reported before it.
C17_Accumulated ==
    (Done /\ call.op \in AssembleOps /\ cx.extended_error # <<>>) =>
        /\ cx.result.error = <<"Error during assembly">> \o cx.extended_error
        /\ Count("invalid instruction", cx.result.error) = Count("???", call.assembly)
        /\ Count(LabelUndefined, cx.result.error) =
              IF cx.HadError THEN 0 ELSE Cardinality(UndefinedReferences(call))
        /\ (\E k \in 1..Len(cx.extended_error) : cx.extended_error[k] \in ValidationDiagnostics)
              => \A k \in 1..Len(cx.extended_error) : cx.extended_error[k] \in ValidationDiagnostics

C17_Witness ==
    /\ Failed /\ call.op \in AssembleOps
    /\ Count(LabelUndefined, cx.result.error) = 1
    /\ InSeq("symbol is already defined", cx.result.error)

\* position in the emitted output of AArch64 statement k: every instruction and
\* every .long is four bytes, labels and a satisfied alignment are none
Aarch64Position(assembly, k) ==
    4 * Cardinality({j \in 1..(k - 1) :
                       assembly[j] \in {"nop", "adrp l", "adrp e", ".long l"}})

\* absolute address of the label statement k refers to
LabelAddress(c, k) ==
    IF FixupSymbol(c.assembly[k]) = "l"
    THEN U64(c.address + Aarch64Position(c.assembly,
                             CHOOSE j \in 1..Len(c.assembly) : c.assembly[j] = "l:"))
    ELSE (CHOOSE lab \in {c.labels[j] : j \in 1..Len(c.labels)} : lab.name = "e").address

\* C18: the value encoded into an AArch64 ADRP with a defined label is
\* page(absolute label address) - page(absolute address of the ADRP), wherever
\* the ADRP and the label are in the text.
C18_AdrpPageDelta ==
    (Succeeded /\ triple = "aarch64" /\ call.op = "assemble") =>
        \A k \in 1..Len(call.assembly) :
            call.assembly[k] \in {"adrp l", "adrp e"} =>
                LET at == Aarch64Position(call.assembly, k)
                    delta == U64(PageOf(LabelAddress(call, k))
                                 - PageOf(U64(call.address + at)) + AddrMod)
                IN SubSeq(cx.result.value, at + 1, at + 4) = AdrpBytes(delta)

CouldNotResolve == "Could not resolve relocation/label (reported by Nyxstone)"

\* C19: a relocation whose symbols are defined but whose kind is not the
\* AArch64 ADRP page relocation (here: the absolute reference of a data
\* directive, once layout runs) is reported as not resolvable and the call
\* fails without bytes.
C19_UnimplementedRelocation ==
    (Done /\ call.op \in AssembleOps /\ ~cx.HadError
          /\ InSeq(".long l", call.assembly) /\ InSeq("l:", call.assembly)) =>
        /\ cx.result.kind = "err"
        /\ cx.result.value = <<>>
        /\ InSeq(CouldNotResolve, cx.result.error)

C19_Witness ==
    /\ Failed /\ call.op = "assemble" /\ ~cx.HadError
    /\ InSeq(".long l", call.assembly) /\ InSeq("l:", call.assembly)
    /\ cx.result.error = <<"Error during assembly", CouldNotResolve>>

MisalignedLabel ==
    {"misaligned label address (reported by nyxstone)",
     "misaligned label address (reported by Nyxstone)"}

\* absolute address of a defined symbol of the call
TargetAddress(c, x, symbol) ==
    U64(c.address + SymbolOffset(x.fragments, symbol) + AddrMod
        - (IF x.needs_prepend THEN Len(PREPENDED_BYTES) ELSE 0))

\* some fixup of some fragment is a Thumb branch to a label that is not 2-byte
\* aligned, or a Thumb literal load from a label that is not 4-byte aligned
MisalignedFixup(c, x) ==
    \E i \in 1..Len(x.fragments) :
        /\ x.fragments[i].kind \in {"Data", "Relaxable"}
        /\ \E k \in 1..Len(x.fragments[i].fixups) :
              LET fixup == x.fragments[i].fixups[k]
                  symbol == x.symbols[fixup.sym]
              IN /\ symbol.defined
                 /\ \/ /\ fixup.kind \in ThumbBranchKinds
                       /\ TargetAddress(c, x, symbol) % 2 # 0
                    \/ /\ fixup.kind \in {"fixup_thumb_adr_pcrel_10", "fixup_arm_thumb_cp",
                                          "fixup_t2_pcrel_10"}
                       /\ TargetAddress(c, x, symbol) % 4 # 0

\* C20 as stated: on Thumb a misaligned branch or literal-load target makes the
\* call fail with a misaligned-label error.
C20_MisalignedReported ==
    (Done /\ call.op \in AssembleOps /\ IsThumb(triple) /\ MisalignedFixup(call, cx)) =>
        /\ cx.result.kind = "err"
        /\ \E k \in 1..Len(cx.result.error) : cx.result.error[k] \in MisalignedLabel

\* a data directive stands before an instruction that refers to a label
DataBeforeReference(c) ==
    \E i, j \in 1..Len(c.assembly) :
        i < j /\ c.assembly[i] = ".byte 1" /\ HasReference(c.assembly[j])

\* C20 amended: on Thumb a misaligned branch or literal-load target makes the
\* call fail, in both variants. The error is the misaligned-label error unless
\* a diagnostic was reported before the fixups were validated (the validation
\* is then skipped), or, in the instructions variant, data bytes stand before
\* the instruction (the fragment loop may then end before its fragment, and the
\* call fails on the length check instead).
C20_MisalignedFails ==
    (Done /\ call.op \in AssembleOps /\ IsThumb(triple) /\ MisalignedFixup(call, cx)) =>
        /\ cx.result.kind = "err"
        /\ cx.result.value = <<>>
        /\ ( /\ \A k \in 1..Len(cx.extended_error) :
                    cx.extended_error[k] \in ValidationDiagnostics
             /\ call.op = "assemble" \/ ~DataBeforeReference(call) )
              => \E k \in 1..Len(cx.result.error) : cx.result.error[k] \in MisalignedLabel

C20_Witness ==
    /\ Failed /\ call.op = "assemble_to_instructions" /\ IsThumb(triple)
    /\ MisalignedFixup(call, cx)
    /\ InSeq("jmp l", call.assembly)
    /\ cx.result.error = <<"Error during assembly",
                           "misaligned label address (reported by nyxstone)">>

----------------------------------------------------------------------------
(* C21 *)

\* the encodable range of a pc-relative fixup kind
InRange(kind, value) ==
    CASE kind = "fixup_t2_adr_pcrel_12" -> value >= -4095 /\ value <= 4095
      [] kind = "fixup_t2_pcrel_10" -> value >= -1020 /\ value <= 1020
      [] OTHER -> TRUE

\* some ADR or literal load of the text is further from its label than its
\* encoding can hold, measured from the instruction itself
OutOfRangeFixup(x) ==
    \E i \in 1..Len(x.fragments) :
        \E k \in 1..Len(x.fragments[i].fixups) :
            LET fixup == x.fragments[i].fixups[k]
            IN /\ x.symbols[fixup.sym].defined
               /\ ~InRange(fixup.kind, FixupValue(x.fragments, x.symbols, i, fixup))

\* C21 as stated: a Thumb2 ADR or literal load whose true offset to its label
\* is outside the encodable range makes the call fail, wherever the instruction
\* stands in the text.
C21_OutOfRangeReported ==
    (Done /\ call.op \in AssembleOps /\ IsThumb(triple) /\ OutOfRangeFixup(cx)) =>
        cx.result.kind = "err"

----------------------------------------------------------------------------
(* C22 *)

\* C22 as stated: the command-line tool exits with status 2 when parsing the
\* arguments fails, with 1 when building the session, decoding the hex input or
\* the assemble / disassemble call fails, and with 0 on success or help.
C22_ExitStatus ==
    cli.pc = "exited" =>
        cli.status = CASE cli.left_at = "parse" -> 2
                       [] cli.left_at \in {"build", "hex", "operation", "terminate"} -> 1
                       [] OTHER -> 0

----------------------------------------------------------------------------
(* C23 *)

RECURSIVE Split(_, _)
\* the pieces of str between the delimiters
Split(str, delim) ==
    LET k == Find(str, delim)
    IN IF k = 0 THEN <<str>>
       ELSE <<SubSeq(str, 1, k - 1)>> \o Split(SubSeq(str, k + 1, Len(str)), delim)

\* a complete decimal number, or 0x and a complete hexadecimal number
IsNumber(val) ==
    \/ val # <<>> /\ \A k \in 1..Len(val) : IsDigit(val[k], 10)
    \/ /\ Len(val) >= 3 /\ val[1] = "0" /\ val[2] = "x"
       /\ \A k \in 3..Len(val) : IsDigit(val[k], 16)

\* name=value with a name of allowed characters that is not empty and does not
\* start with a digit or a minus sign, and a number as value
IsLabelToken(token) ==
    LET k == Find(token, "=")
        name == SubSeq(token, 1, k - 1)
    IN /\ k # 0
       /\ name # <<>>
       /\ \A j \in 1..Len(name) : name[j] \in AllowedLabelChars
       /\ name[1] \notin NotAllowedFirstChar
       /\ IsNumber(SubSeq(token, k + 1, Len(token)))

WellFormedLabels(str) ==
    LET tokens == Split(str, ",")
    IN \A k \in 1..Len(tokens) : IsLabelToken(tokens[k])

\* C23 as stated: parse_labels returns a label list exactly for a
\* comma-separated list of name=value tokens (name not empty, of allowed
\* characters, not starting with a digit or '-'; value a complete decimal or
\* 0x hexadecimal number) and fails for every other string.
C23_ParseLabels ==
    cli.parse_result.kind # "none" =>
        (cli.parse_result.kind = "ok" <=> WellFormedLabels(cli.argv.labels_str))

----------------------------------------------------------------------------
(* C24 *)

\* C24 as stated: the sentinel is prepended to the text exactly when the session
\* target is ARM Thumb and the start address is 2 modulo 4; for every other
\* target and address the Backend receives the caller's text unchanged.
C24_SentinelIffThumb ==
    (call.op \in AssembleOps /\ call.assembly # <<>> /\ cx.pc # "idle") =>
        /\ cx.needs_prepend <=> (IsThumb(triple) /\ call.address % 4 = 2)
        /\ cx.input_assembly = IF IsThumb(triple) /\ call.address % 4 = 2
                               THEN <<PREPENDED_ASSEMBLY>> \o call.assembly
                               ELSE call.assembly

----------------------------------------------------------------------------
(* C25 *)

\* no later entry of the list has the name of entry k
LastEntry(labels, k) == \A j \in (k + 1)..Len(labels) : labels[j].name # labels[k].name

\* the bytes the sentinel occupies at the start of the buffer
Compensation(x) == IF x.needs_prepend THEN Len(PREPENDED_BYTES) ELSE 0

\* the symbol of entry k is bound to the first fragment at the entry's address,
\* taken relative to the start address and moved behind the sentinel
Injected(c, x, k) ==
    x.symbols[c.labels[k].name] =
        [defined |-> TRUE, frag |-> 1,
         offset |-> U64(c.labels[k].address - c.address + Compensation(x))]

\* C25: every external label is injected before any statement is parsed, at
\* buffer offset (label.address - address + s) mod 2^64 with s = 2 when the
\* sentinel is prepended and 0 otherwise; the distance in the buffer between the
\* label and an emitted instruction is the distance of their absolute
\* addresses, also for a label below the start address (a lone x86 jump to the
\* label holds exactly that distance).
C25_LabelInjection ==
    (call.op \in AssembleOps /\ call.assembly # <<>> /\ cx.pc # "idle") =>
        /\ \A k \in 1..Len(call.labels) :
               LastEntry(call.labels, k) => Injected(call, cx, k)
        /\ (cx.pc = "parse" /\ cx.cursor = 1) =>
               cx.instructions = <<>> /\ SectionData(cx.fragments) = <<>>
        /\ (Succeeded /\ cx.want_instructions) =>
               \A j \in 1..Len(cx.result.value), k \in 1..Len(call.labels) :
                   LastEntry(call.labels, k) =>
                       U64(cx.symbols[call.labels[k].name].offset
                           - (Compensation(cx) + SumLen(SubSeq(cx.result.value, 1, j - 1))))
                       = U64(call.labels[k].address - cx.result.value[j].address)
        /\ (Succeeded /\ triple = "x86_64" /\ call.op = "assemble"
            /\ call.assembly = <<"jmp e">> /\ call.labels # <<>>) =>
               LET target == call.labels[Len(call.labels)].address
               IN cx.result.value =
                      IF FitsShort(triple, target - (call.address + 2))
                      THEN EncShort(triple, target - (call.address + 2))
                      ELSE EncLong(triple, target - (call.address + 5))

C25_Witness ==
    /\ Succeeded /\ cx.want_instructions /\ cx.needs_prepend
    /\ call.assembly = <<"nop", "jmp e">>
    /\ call.labels = <<[name |-> "e", address |-> 6]>>
    /\ Len(cx.result.value) = 2

----------------------------------------------------------------------------
(* C26 *)

\* C26 speaks about a fragment that holds fewer bytes than the recorded
\* instruction lengths require.  No call reaches that case: at emission the
\* new length is the part of the first fragment that exceeds the recorded
\* total, so it never exceeds that fragment, and at the final write a data
\* fragment is never left with bytes that the next record does not fit into.
NoShortfall ==
    /\ ~cx.shortfall
    /\ \A k \in 1..Len(cx.extended_error) :
          cx.extended_error[k] # "Internal error (= insn_length)"

----------------------------------------------------------------------------
(* C27 *)

RECURSIVE KeepLast(_)
\* the list without the entries whose name occurs again further on
KeepLast(labels) ==
    IF labels = <<>> THEN <<>>
    ELSE IF \E j \in 2..Len(labels) : labels[j].name = Head(labels).name
         THEN KeepLast(Tail(labels))
         ELSE <<Head(labels)>> \o KeepLast(Tail(labels))

\* C27: when a name occurs more than once in the label list, the call uses the
\* address of the last entry with that name: its result is the result of the
\* call without the earlier entries, and the repetition raises no error.
C27_LastWriteWins ==
    (Done /\ call.op \in AssembleOps) =>
        cx.result = AssembleResult(triple, call.op, call.assembly, call.address,
                                   KeepLast(call.labels))

C27_Witness ==
    /\ Succeeded /\ call.op = "assemble" /\ triple = "x86_64"
    /\ call.assembly = <<"jmp e">> /\ call.address = 4096
    /\ call.labels = <<[name |-> "e", address |-> 6], [name |-> "e", address |-> 4100]>>
    /\ cx.result.value = EncShort(triple, 2)

----------------------------------------------------------------------------
(* C28 *)

\* C28 as stated: for every answer of the decoder, a successful decode of size
\* 0 included, the decode loop runs at most len(bytes) times when count is 0
\* and at most min(count, len(bytes)) times otherwise.
C28_IterationBound ==
    call.op \in DisassembleOps =>
        cx.insn_count <= IF call.count = 0 THEN Len(call.bytes)
                         ELSE Min(call.count, Len(call.bytes))

----------------------------------------------------------------------------
(* C29 *)

\* a thread that has left build() does not hold the mutex
ReleasedOnReturn ==
    \A b \in Builders : builders[b].pc = "done" => build_common_mutex # b

\* C29: the mutex is released on every exit path of build(), the error returns
\* for an invalid configuration included, and every build() call that waits for
\* the mutex obtains it and returns.
C29_BuildCompletes ==
    /\ []ReleasedOnReturn
    /\ \A b \in Builders : (builders[b].pc = "lock") ~> (builders[b].pc = "done")

C29_Witness ==
    /\ builders[1].pc = "done" /\ builders[1].result.kind = "err"
    /\ builders[2].pc = "done" /\ builders[2].result.kind = "ok"
    /\ build_common_mutex = 0

----------------------------------------------------------------------------
(* C30 *)

\* the address the caller gave for the symbol (its last entry in the list)
ExternalAddress(c, name) ==
    LET k == CHOOSE k \in 1..Len(c.labels) :
                 c.labels[k].name = name /\ LastEntry(c.labels, k)
    IN c.labels[k].address

\* some fixup refers to an external label whose absolute address is not
\* aligned as the fixup's kind needs
MisalignedExternal(c, x) ==
    \E i \in 1..Len(x.fragments) :
        \E k \in 1..Len(x.fragments[i].fixups) :
            LET fixup == x.fragments[i].fixups[k]
            IN /\ \E j \in 1..Len(c.labels) : c.labels[j].name = fixup.sym
               /\ \/ /\ fixup.kind \in ThumbBranchKinds
                     /\ ExternalAddress(c, fixup.sym) % 2 # 0
                  \/ /\ fixup.kind \in {"fixup_thumb_adr_pcrel_10", "fixup_arm_thumb_cp",
                                        "fixup_t2_pcrel_10"}
                     /\ ExternalAddress(c, fixup.sym) % 4 # 0

\* C30: on Thumb with an even start address the position the validator tests
\* (fragment offset + symbol offset in the buffer, sentinel included) is
\* aligned to 2 and to 4 exactly when the label's absolute address is, for
\* every external label; where the fixups are validated, the misaligned-label
\* diagnostic is reported exactly for the absolute addresses that are misaligned.
C30_AlignmentVerdict ==
    (IsThumb(triple) /\ call.op \in AssembleOps /\ call.assembly # <<>>
     /\ cx.pc # "idle" /\ call.address % 2 = 0) =>
        /\ \A k \in 1..Len(call.labels) :
               LastEntry(call.labels, k) =>
                   LET position == SymbolOffset(cx.fragments, cx.symbols[call.labels[k].name])
                   IN \A a \in {2, 4} :
                          (position % a = 0) <=> (call.labels[k].address % a = 0)
        /\ ( /\ cx.pc \in {"post", "done"} /\ ~cx.HadError /\ ~cx.thrown
             /\ \A k \in 1..Len(cx.extended_error) :
                    cx.extended_error[k] \in ValidationDiagnostics )
              => ((\E k \in 1..Len(cx.extended_error) :
                      cx.extended_error[k] \in MisalignedLabel)
                  <=> MisalignedExternal(call, cx))

C30_Witness ==
    /\ Failed /\ IsThumb(triple) /\ cx.needs_prepend
    /\ call.assembly = <<"vldr e">>
    /\ call.labels = <<[name |-> "e", address |-> 4102]>>
    /\ cx.extended_error = <<"misaligned label address (reported by Nyxstone)">>

====
